---- MODULE Spec2Model ----
(***************************************************************************)
(* Gauss' method of orbit determination (orbitdeterminator,                *)
(* kep_determination/gauss_method.py): the Gauss core, its refinement,     *)
(* the per-triplet iterator and the multi-triplet orchestration.           *)
(*                                                                         *)
(* Numbers.  The program computes in IEEE binary64 through numpy scalars:  *)
(* a division by zero or an overflow raises nothing and yields inf or nan. *)
(* The model keeps that behaviour with a fixed-point number of Scale       *)
(* steps per unit: a finite value v is the integer v*Scale, rounded to the *)
(* nearest step after every operation; a magnitude above MaxK overflows to *)
(* an infinity; PosInf, NegInf and NaN are three reserved integers.  The   *)
(* sign of zero is not kept (x/0 is +-inf by the sign of x alone).         *)
(***************************************************************************)
EXTENDS Integers, Sequences, FiniteSets, TLC

\* ------------------------------------------------------------ bounds
\* precision of the numbers: steps per unit
Scale == 24
\* largest finite magnitude, in steps
MaxK == 30000
\* number of roots the root finder's answer holds in the model
NumRoots == 3
\* largest refinement count tried
MaxRefiters == 2
\* largest number of observations in an arc
MaxObs == 4

\* ------------------------------------------------------------ numbers
PosInf == MaxK + 1
NegInf == -(MaxK + 1)
NaN == MaxK + 2

IsNaN(x) == x = NaN
IsInf(x) == x = PosInf \/ x = NegInf
IsFinite(x) == x >= -MaxK /\ x <= MaxK

Sgn(n) == IF n > 0 THEN 1 ELSE IF n < 0 THEN -1 ELSE 0
Abs(n) == IF n < 0 THEN -n ELSE n

\* an integer number of steps as a number: overflow gives an infinity
Clamp(n) == IF n > MaxK THEN PosInf ELSE IF n < -MaxK THEN NegInf ELSE n

\* n/d rounded to the nearest integer (half away from zero), d > 0
RoundDiv(n, d) == Sgn(n) * ((2 * Abs(n) + d) \div (2 * d))

\* the integer literal n as a number
Fl(n) == Clamp(n * Scale)
\* the literal p/q as a number, rounded as the compiler rounds a literal
FlQ(p, q) == Clamp(RoundDiv(p * Scale, q))

FNeg(x) == IF IsNaN(x) THEN NaN ELSE -x

FAdd(x, y) ==
    IF IsNaN(x) \/ IsNaN(y) THEN NaN
    ELSE IF IsInf(x) THEN (IF IsInf(y) /\ y # x THEN NaN ELSE x)
    ELSE IF IsInf(y) THEN y
    ELSE Clamp(x + y)

FSub(x, y) == FAdd(x, FNeg(y))

FMul(x, y) ==
    IF IsNaN(x) \/ IsNaN(y) THEN NaN
    ELSE IF IsInf(x) \/ IsInf(y)
         THEN (IF x = 0 \/ y = 0 THEN NaN
               ELSE IF Sgn(x) * Sgn(y) > 0 THEN PosInf ELSE NegInf)
    ELSE Clamp(RoundDiv(x * y, Scale))

\* numpy float64 division: x/0 is +-inf, 0/0 and inf/inf are nan; no exception
FDiv(x, y) ==
    IF IsNaN(x) \/ IsNaN(y) THEN NaN
    ELSE IF IsInf(x) THEN (IF IsInf(y) THEN NaN
                           ELSE IF Sgn(x) * (IF y < 0 THEN -1 ELSE 1) > 0
                                THEN PosInf ELSE NegInf)
    ELSE IF IsInf(y) THEN 0
    ELSE IF y = 0 THEN (IF x = 0 THEN NaN ELSE IF x > 0 THEN PosInf ELSE NegInf)
    ELSE Clamp(Sgn(y) * RoundDiv(x * Scale, Abs(y)))

FSq(x) == FMul(x, x)
FCube(x) == FMul(FMul(x, x), x)
FAbs(x) == IF IsNaN(x) THEN NaN ELSE Abs(x)

\* comparisons: every comparison with nan is false
FGe(x, y) == ~IsNaN(x) /\ ~IsNaN(y) /\ x >= y
FGt(x, y) == ~IsNaN(x) /\ ~IsNaN(y) /\ x > y
FLt(x, y) == ~IsNaN(x) /\ ~IsNaN(y) /\ x < y

\* largest s with s*s <= n, for 0 <= n < (MaxK + 1)^2, by bisection:
\* lo*lo <= n < hi*hi throughout
RECURSIVE ISqrtIn(_, _, _)
ISqrtIn(n, lo, hi) ==
    IF hi - lo <= 1 THEN lo
    ELSE IF ((lo + hi) \div 2) * ((lo + hi) \div 2) <= n
         THEN ISqrtIn(n, (lo + hi) \div 2, hi)
         ELSE ISqrtIn(n, lo, (lo + hi) \div 2)
ISqrt(n) == ISqrtIn(n, 0, MaxK + 1)

\* np.sqrt: nan (and a warning) for a negative argument
FSqrt(x) ==
    IF IsNaN(x) \/ x < 0 THEN NaN
    ELSE IF x = PosInf THEN PosInf
    ELSE ISqrt(x * Scale)

\* ------------------------------------------------------------ vectors
Vec(x, y, z) == <<x, y, z>>
VAdd(a, b) == <<FAdd(a[1], b[1]), FAdd(a[2], b[2]), FAdd(a[3], b[3])>>
VScale(s, a) == <<FMul(s, a[1]), FMul(s, a[2]), FMul(s, a[3])>>
VDivS(a, s) == <<FDiv(a[1], s), FDiv(a[2], s), FDiv(a[3], s)>>
\* np.dot
Dot(a, b) == FAdd(FAdd(FMul(a[1], b[1]), FMul(a[2], b[2])), FMul(a[3], b[3]))
\* np.cross
Cross(a, b) ==
    <<FSub(FMul(a[2], b[3]), FMul(a[3], b[2])),
      FSub(FMul(a[3], b[1]), FMul(a[1], b[3])),
      FSub(FMul(a[1], b[2]), FMul(a[2], b[1]))>>
VFinite(a) == IsFinite(a[1]) /\ IsFinite(a[2]) /\ IsFinite(a[3])

\* ------------------------------------------------------------ constants
\* gravitational parameters, in the model's units (the program's values are
\* 398600.44 km^3/s^2 and 2.959e-4 au^3/day^2)
mu_Earth == Fl(2)
mu_Sun == Fl(1)
Half == FlQ(1, 2)
Sixth == FlQ(1, 6)

\* ------------------------------------------------------------ observations
\* Angles of the observation files are multiples of a quarter turn in the
\* model, so that np.cos and np.sin are exact: ra in 0..3, dec in -1..1.
CosQ(k) == CASE k % 4 = 0 -> Fl(1) [] k % 4 = 2 -> Fl(-1) [] OTHER -> 0
SinQ(k) == CASE k % 4 = 1 -> Fl(1) [] k % 4 = 3 -> Fl(-1) [] OTHER -> 0

losvector(ra_rad, dec_rad) ==
    LET cosa_cosd == FMul(CosQ(ra_rad), CosQ(dec_rad))
        sina_cosd == FMul(SinQ(ra_rad), CosQ(dec_rad))
        sind == SinQ(dec_rad)
    IN  Vec(cosa_cosd, sina_cosd, sind)

\* The loaded observation file (load_iod_data / load_mpc_data): one record per
\* line; t is the epoch, site the station code.  Lines 4 and 5 are taken at
\* the same instant from two stations; line 6 repeats the direction of line 4.
ObsFile ==
    << [t |-> 0, ra |-> 0, dec |-> 0, site |-> 1],
       [t |-> 1, ra |-> 1, dec |-> 0, site |-> 2],
       [t |-> 2, ra |-> 0, dec |-> 1, site |-> 1],
       [t |-> 3, ra |-> 0, dec |-> 0, site |-> 2],
       [t |-> 3, ra |-> 1, dec |-> 0, site |-> 1],
       [t |-> 4, ra |-> 0, dec |-> 0, site |-> 1] >>
NLines == Len(ObsFile)

\* observerpos_sat / observerpos_mpc: the station's position at the epoch of
\* the observation (a table over the stations and epochs of ObsFile)
observerpos(site, t) ==
    IF site = 1 THEN Vec(Fl(1), Fl(t % 2), 0)
    ELSE Vec(0, Fl(1), Fl(t % 2))

\* earth_ephemeris(t)/au, for the Sun-centred pipeline
earth_ephemeris(t) == Vec(Fl(2), Fl(t % 3), 0)

\* get_observations_data_sat: the three records at 0-based indices inds; the
\* times are seconds since the first of the three
get_observations_data_sat(inds) ==
    LET o == [k \in 1..3 |-> ObsFile[inds[k] + 1]]
    IN  [obs_radec |-> [k \in 1..3 |-> [ra |-> o[k].ra, dec |-> o[k].dec, obstime |-> o[k].t]],
         obs_t |-> [k \in 1..3 |-> Fl(o[k].t - o[1].t)],
         site_codes |-> [k \in 1..3 |-> o[k].site]]

\* get_observations_data: the same for an MPC file; the times are Julian dates
get_observations_data(inds) ==
    LET o == [k \in 1..3 |-> ObsFile[inds[k] + 1]]
    IN  [obs_radec |-> [k \in 1..3 |-> [ra |-> o[k].ra, dec |-> o[k].dec, obstime |-> o[k].t]],
         obs_t |-> [k \in 1..3 |-> Fl(o[k].t)],
         site_codes |-> [k \in 1..3 |-> o[k].site]]

get_observer_pos_wrt_earth(obs_radec, site_codes) ==
    [k \in 1..3 |-> observerpos(site_codes[k], obs_radec[k].obstime)]

get_observer_pos_wrt_sun(obs_radec, site_codes) ==
    [R |-> [k \in 1..3 |-> VAdd(earth_ephemeris(obs_radec[k].obstime),
                                 observerpos(site_codes[k], obs_radec[k].obstime))],
     Ea_hc_pos |-> [k \in 1..3 |-> earth_ephemeris(obs_radec[k].obstime)]]

\* ------------------------------------------------------------ Gauss core
lagrangef(mu, r2, tau) ==
    FSub(Fl(1), FMul(FMul(Half, FDiv(mu, FCube(r2))), FSq(tau)))

lagrangeg(mu, r2, tau) ==
    FSub(tau, FMul(FMul(Sixth, FDiv(mu, FCube(r2))), FCube(tau)))

\* D[i,j] of the code, i, j in 0..2
Dm(D, i, j) == D[i + 1][j + 1]

\* lines 929-931: D[i,j] = R[i] . p[j]
DMatrix(R, p1, p2, p3) ==
    << << Dot(R[1], p1), Dot(R[1], p2), Dot(R[1], p3) >>,
       << Dot(R[2], p1), Dot(R[2], p2), Dot(R[2], p3) >>,
       << Dot(R[3], p1), Dot(R[3], p2), Dot(R[3], p3) >> >>

\* lines 944-949: the coefficients a, b, c and the polynomial
CorePolyCoeffs(rho1, rho2, rho3, tau1, tau3, tau, D0, D, A, B, E, Rsub2p2, mu) ==
    [rho1 |-> rho1, rho2 |-> rho2, rho3 |-> rho3,
     tau1 |-> tau1, tau3 |-> tau3, tau |-> tau,
     D0 |-> D0, D |-> D, A |-> A, B |-> B,
     gauss_poly_coeffs |->
        << Fl(1), 0,
           FNeg(FAdd(FAdd(FSq(A), FMul(FMul(Fl(2), A), E)), Rsub2p2)),
           0, 0,
           FMul(FMul(FMul(Fl(-2), mu), B), FAdd(A, E)),
           0, 0,
           FNeg(FMul(FSq(mu), FSq(B))) >>]

\* lines 933-942: A, B, E and Rsub2p2
CorePolyAB(rho1, rho2, rho3, tau1, tau3, tau, D0, D, R, mu) ==
    CorePolyCoeffs(rho1, rho2, rho3, tau1, tau3, tau, D0, D,
        FDiv(FAdd(FAdd(FMul(FNeg(Dm(D, 0, 1)), FDiv(tau3, tau)), Dm(D, 1, 1)),
                  FMul(Dm(D, 2, 1), FDiv(tau1, tau))), D0),
        FDiv(FAdd(FMul(FMul(Dm(D, 0, 1), FSub(FSq(tau3), FSq(tau))), FDiv(tau3, tau)),
                  FMul(FMul(Dm(D, 2, 1), FSub(FSq(tau), FSq(tau1))), FDiv(tau1, tau))),
             FMul(Fl(6), D0)),
        Dot(R[2], rho2),
        Dot(R[2], R[2]),
        mu)

\* lines 913-931: tau, the cross products, D0 and D
CorePolyD(rho1, rho2, rho3, tau1, tau3, R, mu) ==
    CorePolyAB(rho1, rho2, rho3, tau1, tau3, FSub(tau3, tau1),
               Dot(rho1, Cross(rho2, rho3)),
               DMatrix(R, Cross(rho2, rho3), Cross(rho1, rho3), Cross(rho1, rho2)),
               R, mu)

\* gauss_method_core up to the coefficients of the Gauss polynomial
CorePoly(obs_radec, obs_t, R, mu) ==
    CorePolyD(losvector(obs_radec[1].ra, obs_radec[1].dec),
              losvector(obs_radec[2].ra, obs_radec[2].dec),
              losvector(obs_radec[3].ra, obs_radec[3].dec),
              FSub(obs_t[1], obs_t[2]),
              FSub(obs_t[3], obs_t[2]),
              R, mu)

\* np.roots: the eigenvalues of the companion matrix; numpy.linalg.eigvals
\* raises LinAlgError when the matrix holds an inf or a nan.  The roots it
\* finds otherwise are the root finder's answer, an input of the model.
\* variant: a root finder that accepts any coefficients
np_roots_unchecked(coeffs, answer) == [ok |-> TRUE, roots |-> answer]

np_roots(coeffs, answer) ==
    IF \A k \in 1..Len(coeffs) : IsFinite(coeffs[k])
    THEN [ok |-> TRUE, roots |-> answer]
    ELSE [ok |-> FALSE, roots |-> << >>]

\* np.isreal(z) & (z >= 0.0), z a root [re, im]; numpy orders complex
\* numbers by real part, then imaginary part
\* variant: np.isreal alone
AdmissibleReal(z) == z.im = 0

Admissible(z) ==
    /\ z.im = 0
    /\ (FGt(z.re, 0) \/ (z.re = 0 /\ FGe(z.im, 0)))

\* np.where(...)[0]: the 0-based positions of the admissible roots, ascending
RECURSIVE WhereFrom(_, _)
WhereFrom(roots, k) ==
    IF k > Len(roots) THEN << >>
    ELSE (IF Admissible(roots[k]) THEN << k - 1 >> ELSE << >>) \o WhereFrom(roots, k + 1)
rt_indx(roots) == WhereFrom(roots, 1)

\* Python's sequence indexing s[k]: a negative k counts from the end
InRange(s, k) == k >= -Len(s) /\ k < Len(s)
PyIndex(s, k) == IF k >= 0 THEN s[k + 1] ELSE s[Len(s) + k + 1]

\* variant: the first admissible root whatever the index
r2_star_first(roots, r2_root_ind) == PyIndex(roots, PyIndex(rt_indx(roots), 0)).re

\* r2_star = np.real(gauss_poly_roots[rt_indx[0][r2_root_ind]])
r2_star_of(roots, r2_root_ind) == PyIndex(roots, PyIndex(rt_indx(roots), r2_root_ind)).re

\* the state vector at the middle observation from positions r1 and r3 and
\* the Lagrange coefficients: (-f3*r1 + f1*r3)/(f1*g3 - f3*g1)
Velocity(r1, r3, f1, g1, f3, g3) ==
    VDivS(VAdd(VScale(FNeg(f3), r1), VScale(f1, r3)),
          FSub(FMul(f1, g3), FMul(f3, g1)))

\* lines 978-986: the velocity and the returned values
CoreSolveOut(r1, r2, r3, f1, g1, f3, g3, rho_1_, rho_2_, rho_3_) ==
    [r1 |-> r1, r2 |-> r2, r3 |-> r3, v2 |-> Velocity(r1, r3, f1, g1, f3, g3),
     f1 |-> f1, g1 |-> g1, f3 |-> f3, g3 |-> g3,
     rho_1_ |-> rho_1_, rho_2_ |-> rho_2_, rho_3_ |-> rho_3_]

\* lines 967-976: the positions and the Lagrange coefficients
CoreSolveR(P, R, mu, r2_star, rho_1_, rho_2_, rho_3_) ==
    CoreSolveOut(VAdd(R[1], VScale(rho_1_, P.rho1)),
                 VAdd(R[2], VScale(rho_2_, P.rho2)),
                 VAdd(R[3], VScale(rho_3_, P.rho3)),
                 lagrangef(mu, r2_star, P.tau1), lagrangeg(mu, r2_star, P.tau1),
                 lagrangef(mu, r2_star, P.tau3), lagrangeg(mu, r2_star, P.tau3),
                 rho_1_, rho_2_, rho_3_)

\* lines 962-965: the slant ranges
CoreSlant1(D, D0, tau1, tau3, tau, mu, r3c) ==
    FDiv(FSub(FDiv(FAdd(FMul(FMul(Fl(6), FAdd(FMul(Dm(D, 2, 0), FDiv(tau1, tau3)),
                                               FMul(Dm(D, 1, 0), FDiv(tau, tau3)))), r3c),
                        FMul(FMul(FMul(mu, Dm(D, 2, 0)), FSub(FSq(tau), FSq(tau1))),
                             FDiv(tau1, tau3))),
                   FAdd(FMul(Fl(6), r3c), FMul(mu, FSub(FSq(tau), FSq(tau3))))),
              Dm(D, 0, 0)), D0)
CoreSlant3(D, D0, tau1, tau3, tau, mu, r3c) ==
    FDiv(FSub(FDiv(FAdd(FMul(FMul(Fl(6), FSub(FMul(Dm(D, 0, 2), FDiv(tau3, tau1)),
                                               FMul(Dm(D, 1, 2), FDiv(tau, tau1)))), r3c),
                        FMul(FMul(FMul(mu, Dm(D, 0, 2)), FSub(FSq(tau), FSq(tau3))),
                             FDiv(tau3, tau1))),
                   FAdd(FMul(Fl(6), r3c), FMul(mu, FSub(FSq(tau), FSq(tau1))))),
              Dm(D, 2, 2)), D0)

\* gauss_method_core from the selected root to its return value
CoreSolve(P, R, mu, r2_star) ==
    CoreSolveR(P, R, mu, r2_star,
               CoreSlant1(P.D, P.D0, P.tau1, P.tau3, P.tau, mu, FCube(r2_star)),
               FAdd(P.A, FDiv(FMul(mu, P.B), FCube(r2_star))),
               CoreSlant3(P.D, P.D0, P.tau1, P.tau3, P.tau, mu, FCube(r2_star)))

\* ------------------------------------------------------------ universal Kepler
\* poliastro.stumpff.c2 and c3 (an external library): the Stumpff functions,
\* here by the leading terms of their series, 1/2 - z/24 and 1/6 - z/120
c2(z) == FSub(Half, FDiv(z, Fl(24)))
c3(z) == FSub(Sixth, FDiv(z, Fl(120)))

\* number of Newton-Raphson iterations gauss_refinement asks of univkepler
RefineIters == 10
\* the default of univkepler's parameter iters
DefaultIters == 5
\* the tolerance gauss_iterator_* passes on, 3e-14 (below the model's step)
RefineAtol == FlQ(3, 100000)

\* lines 520-528: f_i/g_i of one Newton-Raphson update, from xi, z_i, a_i, b_i
UnivRatio(Q, xi, z_i, a_i, b_i) ==
    FDiv(FSub(FAdd(FAdd(FMul(FMul(a_i, FSq(xi)), c2(z_i)),
                        FMul(FMul(b_i, FCube(xi)), c3(z_i))),
                   FMul(Q.r0, xi)),
              FMul(FSqrt(Q.mu), Q.dt)),
         FAdd(FAdd(FMul(FMul(a_i, xi), FSub(Fl(1), FMul(z_i, c3(z_i)))),
                   FMul(FMul(b_i, FSq(xi)), c2(z_i))),
              Q.r0))

\* variant: a loop without the cap on the number of updates
UkGoesOnNoCap(ratio_i, i, iters, atol) == FGt(FAbs(ratio_i), atol)
\* line 523: the condition of the while loop
UkGoesOn(ratio_i, i, iters, atol) == FGt(FAbs(ratio_i), atol) /\ i < iters

\* variant: an initial estimate that ignores dt
XiStartNoDt(mu, alpha0, dt) == FMul(FSqrt(mu), FAbs(alpha0))
\* line 520: the initial estimate for xi
XiStart(mu, alpha0, dt) == FMul(FMul(FSqrt(mu), FAbs(alpha0)), dt)

\* the while loop of univkepler: Q holds r0, vr0, alpha0, mu, dt; the
\* result is the last iterate and the number of updates made
RECURSIVE UnivLoop(_, _, _, _, _, _)
UnivStep(Q, xi, new_ratio, i, iters, atol) ==
    UnivLoop(Q, FSub(xi, new_ratio), new_ratio, i + 1, iters, atol)
UnivLoop(Q, xi, ratio_i, i, iters, atol) ==
    IF UkGoesOn(ratio_i, i, iters, atol)
    THEN UnivStep(Q, xi,
                  UnivRatio(Q, xi, FMul(Q.alpha0, FSq(xi)),
                            FDiv(FMul(Q.r0, Q.vr0), FSqrt(Q.mu)),
                            FSub(Fl(1), FMul(Q.alpha0, Q.r0))),
                  i, iters, atol)
    ELSE [xi |-> xi, i |-> i, ratio_i |-> ratio_i]

\* np.linalg.norm of a 3-vector
Norm(r) == FSqrt(FAdd(FAdd(FSq(r[1]), FSq(r[2])), FSq(r[3])))
\* alpha0 = 2/r0 - v20/mu
Alpha0(r0, v, mu) == FSub(FDiv(Fl(2), r0), FDiv(FAdd(FAdd(FSq(v[1]), FSq(v[2])), FSq(v[3])), mu))

\* lines 505-512: the initial values
UnivStart(dt, mu, iters, atol, r0, vr0, alpha0) ==
    UnivLoop([r0 |-> r0, vr0 |-> vr0, alpha0 |-> alpha0, mu |-> mu, dt |-> dt],
             XiStart(mu, alpha0, dt), Fl(1), 0, iters, atol)

univkepler_r0(dt, r, v, mu, iters, atol, r0) ==
    UnivStart(dt, mu, iters, atol, r0, FDiv(Dot(r, v), r0), Alpha0(r0, v, mu))

univkepler_run(dt, r, v, mu, iters, atol) ==
    univkepler_r0(dt, r, v, mu, iters, atol, Norm(r))

univkepler(dt, r, v, mu, iters, atol) == univkepler_run(dt, r, v, mu, iters, atol).xi

lagrangef_(xi, z, r) == FSub(Fl(1), FDiv(FMul(FSq(xi), c2(z)), r))

lagrangeg_(tau, xi, z, mu) == FSub(tau, FDiv(FMul(FCube(xi), c3(z)), FSqrt(mu)))

\* ------------------------------------------------------------ refinement
\* the Lagrange coefficients gauss_refinement recomputes from the universal
\* anomalies at tau1 and tau3 (the second summand of f1_, g1_, f3_, g3_)
RecomputedAt(mu, tau1, tau3, xi1, xi3, r0_, z1_, z3_) ==
    [f1 |-> lagrangef_(xi1, z1_, r0_), g1 |-> lagrangeg_(tau1, xi1, z1_, mu),
     f3 |-> lagrangef_(xi3, z3_, r0_), g3 |-> lagrangeg_(tau3, xi3, z3_, mu)]

RecomputedXi(mu, tau1, tau3, xi1, xi3, r0_, alpha0_) ==
    RecomputedAt(mu, tau1, tau3, xi1, xi3, r0_, FMul(alpha0_, FSq(xi1)), FMul(alpha0_, FSq(xi3)))

Recomputed_r0(mu, tau1, tau3, r2, v2, atol, r0_) ==
    RecomputedXi(mu, tau1, tau3,
                 univkepler(tau1, r2, v2, mu, RefineIters, atol),
                 univkepler(tau3, r2, v2, mu, RefineIters, atol),
                 r0_, Alpha0(r0_, v2, mu))

Recomputed(mu, tau1, tau3, r2, v2, atol) ==
    Recomputed_r0(mu, tau1, tau3, r2, v2, atol, Norm(r2))

\* variant: the recomputed coefficient alone
DampNone(old, recomputed) == recomputed
\* variant: the sum instead of the mean
DampSum(old, recomputed) == FAdd(old, recomputed)

\* the update of one Lagrange coefficient: the mean of the old value and the
\* recomputed one
Damp(old, recomputed) == FDiv(FAdd(old, recomputed), Fl(2))

\* lines 1046-1053: the positions, the velocity and the returned values
RefineOut(R, rho1, rho2, rho3, f1_, g1_, f3_, g3_, r1, r2, r3, rho_1_, rho_2_, rho_3_) ==
    [r1 |-> r1, r2 |-> r2, r3 |-> r3, v2 |-> Velocity(r1, r3, f1_, g1_, f3_, g3_),
     f1 |-> f1_, g1 |-> g1_, f3 |-> f3_, g3 |-> g3_,
     rho_1_ |-> rho_1_, rho_2_ |-> rho_2_, rho_3_ |-> rho_3_]

RefineR(R, rho1, rho2, rho3, f1_, g1_, f3_, g3_, rho_1_, rho_2_, rho_3_) ==
    RefineOut(R, rho1, rho2, rho3, f1_, g1_, f3_, g3_,
              VAdd(R[1], VScale(rho_1_, rho1)),
              VAdd(R[2], VScale(rho_2_, rho2)),
              VAdd(R[3], VScale(rho_3_, rho3)),
              rho_1_, rho_2_, rho_3_)

\* lines 1041-1044: the slant ranges from c1, c3
RefineSlant(D, D0, R, rho1, rho2, rho3, f1_, g1_, f3_, g3_, c1_, c3_) ==
    RefineR(R, rho1, rho2, rho3, f1_, g1_, f3_, g3_,
            FDiv(FSub(FAdd(FNeg(Dm(D, 0, 0)), FDiv(Dm(D, 1, 0), c1_)),
                      FMul(Dm(D, 2, 0), FDiv(c3_, c1_))), D0),
            FDiv(FSub(FAdd(FMul(FNeg(c1_), Dm(D, 0, 1)), Dm(D, 1, 1)),
                      FMul(c3_, Dm(D, 2, 1))), D0),
            FDiv(FSub(FAdd(FMul(FNeg(Dm(D, 0, 2)), FDiv(c1_, c3_)), FDiv(Dm(D, 1, 2), c3_)),
                      Dm(D, 2, 2)), D0))

\* lines 1036-1039: denum, c1, c3
RefineC(D, R, rho1, rho2, rho3, f1_, g1_, f3_, g3_, denum) ==
    RefineSlant(D, Dot(rho1, Cross(rho2, rho3)), R, rho1, rho2, rho3, f1_, g1_, f3_, g3_,
                FDiv(g3_, denum), FDiv(FNeg(g1_), denum))

\* lines 1031-1036: the averaged Lagrange coefficients
RefineDamped(D, R, rho1, rho2, rho3, f1_, g1_, f3_, g3_) ==
    RefineC(D, R, rho1, rho2, rho3, f1_, g1_, f3_, g3_,
            FSub(FMul(f1_, g3_), FMul(f3_, g1_)))

RefineFrom(D, R, rho1, rho2, rho3, f_1, g_1, f_3, g_3, N) ==
    RefineDamped(D, R, rho1, rho2, rho3,
                 Damp(f_1, N.f1), Damp(g_1, N.g1), Damp(f_3, N.f3), Damp(g_3, N.g3))

gauss_refinement(mu, tau1, tau3, r2, v2, atol, D, R, rho1, rho2, rho3, f_1, g_1, f_3, g_3) ==
    RefineFrom(D, R, rho1, rho2, rho3, f_1, g_1, f_3, g_3,
               Recomputed(mu, tau1, tau3, r2, v2, atol))

\* ------------------------------------------------------------ angles
\* np.pi and 2.0*np.pi
Pi == FlQ(355, 113)
TwoPi == FMul(Fl(2), Pi)
HalfPi == FlQ(355, 226)

\* np.arctan on [0, 1]: q*(pi/4 + 0.273*(1 - q))
ArctanUnit(q) == FMul(q, FAdd(FDiv(Pi, Fl(4)), FMul(FlQ(273, 1000), FSub(Fl(1), q))))
\* np.arctan of a number that is not nan and not negative
ArctanPos(q) ==
    IF q = PosInf THEN HalfPi
    ELSE IF q <= Fl(1) THEN ArctanUnit(q)
    ELSE FSub(HalfPi, ArctanUnit(FDiv(Fl(1), q)))
arctan(q) == IF IsNaN(q) THEN NaN ELSE IF q < 0 THEN -ArctanPos(-q) ELSE ArctanPos(q)

\* y/x for np.arctan2, where inf/inf counts as +-1
Quo(y, x) == IF IsInf(x) /\ IsInf(y) THEN Fl(Sgn(x) * Sgn(y)) ELSE FDiv(y, x)
\* np.arctan2(y, x), in (-pi, pi]
arctan2(y, x) ==
    IF IsNaN(y) \/ IsNaN(x) THEN NaN
    ELSE IF x > 0 THEN arctan(Quo(y, x))
    ELSE IF x < 0 THEN (IF y >= 0 THEN FAdd(arctan(Quo(y, x)), Pi)
                        ELSE FSub(arctan(Quo(y, x)), Pi))
    ELSE IF y > 0 THEN HalfPi
    ELSE IF y < 0 THEN -HalfPi
    ELSE 0

\* np.arccos: nan outside [-1, 1]
arccos(c) ==
    IF IsNaN(c) \/ c > Fl(1) \/ c < Fl(-1) THEN NaN
    ELSE arctan2(FSqrt(FSub(Fl(1), FSq(c))), c)

\* np.mod(x, m) for a finite m > 0
FMod(x, m) == IF IsFinite(x) THEN x % m ELSE NaN

\* variant: the sum in place of the difference
AngleSum(a1_rad, a2_rad) == FAdd(a2_rad, a1_rad)
\* line 760: a2_rad - a1_rad
AngleDelta(a1_rad, a2_rad) == FSub(a2_rad, a1_rad)
\* variant: a result left in [0, 2 pi)
WrapNever(r) == r
\* lines 763-764: if r >= np.pi: r -= 2.0*np.pi
Wrap(r) == IF FGe(r, Pi) THEN FSub(r, TwoPi) ELSE r
\* lines 749-765
angle_diff_rad(a1_rad, a2_rad) == Wrap(FMod(AngleDelta(a1_rad, a2_rad), TwoPi))

\* np.sin on [0, pi]: 16t(pi - t)/(5pi^2 - 4t(pi - t))
SinHalfTurn(t) ==
    FDiv(FMul(Fl(16), FMul(t, FSub(Pi, t))),
         FSub(FMul(Fl(5), FSq(Pi)), FMul(Fl(4), FMul(t, FSub(Pi, t)))))
SinReduced(m) == IF m <= Pi THEN SinHalfTurn(m) ELSE -SinHalfTurn(m - Pi)
sin(x) == IF IsFinite(x) THEN SinReduced(x % (2 * Pi)) ELSE NaN
cos(x) == sin(FAdd(x, HalfPi))
tan(x) == FDiv(sin(x), cos(x))

\* np.rad2deg
rad2deg(x) == FMul(x, FDiv(Fl(180), Pi))
\* np.deg2rad: x*(pi/180), taken as x/(180/pi) since pi/180 is below the grid
deg2rad(x) == FDiv(x, FDiv(Fl(180), Pi))

\* ------------------------------------------------------------ orbital elements
\* what a Python function returns when it ends without a return statement
None == MaxK + 3

\* the angular momentum r x v, by components
AngMom(x, y, z, u, v, w) ==
    << FSub(FMul(y, w), FMul(z, v)), FSub(FMul(z, u), FMul(x, w)), FSub(FMul(x, v), FMul(y, u)) >>
SumSq(a) == FAdd(FAdd(FSq(a[1]), FSq(a[2])), FSq(a[3]))

semimajoraxis(x, y, z, u, v, w, mu) ==
    FDiv(Fl(1), FSub(FDiv(Fl(2), Norm(<<x, y, z>>)), FDiv(SumSq(<<u, v, w>>), mu)))

eccentricity(x, y, z, u, v, w, mu) ==
    FSqrt(FSub(Fl(1), FDiv(SumSq(AngMom(x, y, z, u, v, w)),
                           FMul(mu, semimajoraxis(x, y, z, u, v, w, mu)))))

inclination(x, y, z, u, v, w) ==
    arccos(FDiv(FSub(FMul(x, v), FMul(y, u)), FSqrt(SumSq(AngMom(x, y, z, u, v, w)))))

NonNegAngle(res) == IF FGe(res, 0) THEN res ELSE FAdd(res, TwoPi)
longascnode(x, y, z, u, v, w) ==
    NonNegAngle(arctan2(FSub(FMul(y, w), FMul(z, v)), FSub(FMul(x, w), FMul(z, u))))

RungeLenzOf(x, y, z, u, v, w, mu, h, r) ==
    << FSub(FDiv(FAdd(FMul(FNeg(h[2]), w), FMul(h[3], v)), mu), FDiv(x, r)),
       FSub(FDiv(FAdd(FMul(FNeg(h[3]), u), FMul(h[1], w)), mu), FDiv(y, r)),
       FSub(FDiv(FAdd(FMul(FNeg(h[1]), v), FMul(h[2], u)), mu), FDiv(z, r)) >>
rungelenz(x, y, z, u, v, w, mu) ==
    RungeLenzOf(x, y, z, u, v, w, mu, AngMom(x, y, z, u, v, w), Norm(<<x, y, z>>))

\* a vector divided by its norm
Unit(a) == VDivS(a, Norm(a))

ArgPeriOf(n, e) ==
    IF FGe(e[3], 0) THEN arccos(Dot(n, e)) ELSE FSub(TwoPi, arccos(Dot(n, e)))
argperi(x, y, z, u, v, w, mu) ==
    ArgPeriOf(Unit(<<FSub(FMul(x, w), FMul(z, u)), FSub(FMul(y, w), FMul(z, v)), 0>>),
              Unit(rungelenz(x, y, z, u, v, w, mu)))

\* the if/elif of trueanomaly has no else: a nan v_r_num takes neither branch
TrueAnomalyOf(r_vec, e_vec, v_r_num) ==
    IF FGe(v_r_num, 0) THEN arccos(Dot(e_vec, r_vec))
    ELSE IF FLt(v_r_num, 0) THEN FSub(TwoPi, arccos(Dot(e_vec, r_vec)))
    ELSE None
TrueAnomalyR(r_vec, e_vec, v_vec) == TrueAnomalyOf(r_vec, e_vec, Dot(v_vec, r_vec))
trueanomaly(x, y, z, u, v, w, mu) ==
    TrueAnomalyR(Unit(<<x, y, z>>), Unit(rungelenz(x, y, z, u, v, w, mu)), <<u, v, w>>)

\* least_squares.meanmotion: sqrt(mu/a^3)
meanmotion(mu, a) == FSqrt(FDiv(mu, FCube(a)))

\* least_squares.truean2eccan: 2*arctan(sqrt((1 - e)/(1 + e))*tan(f/2)), f a number
truean2eccan(e, f) ==
    FMul(Fl(2), arctan(FMul(FSqrt(FDiv(FSub(Fl(1), e), FAdd(Fl(1), e))), tan(FDiv(f, Fl(2))))))

TauPeriOf(t, e, n, E0) == FSub(t, FDiv(FMod(FSub(E0, FMul(e, sin(E0))), TwoPi), n))
taupericenter(t, e, f, n) == TauPeriOf(t, e, n, truean2eccan(e, f))

\* ------------------------------------------------------------ state
VARIABLES
    \* one call of gauss_iterator_sat / gauss_iterator_mpc, step by step
    cpc,               \* position in the call
    args,              \* its arguments
    poly,              \* <<P>> once the core has set up the Gauss polynomial
    gauss_poly_roots,  \* what np.roots returned
    rt_len,            \* <<len(rt_indx[0])>> once the admissible roots are counted
    r2_star,           \* <<r>> once the root is selected
    trace,             \* the values after the core and after each refinement
    rcalls,            \* the arguments of each gauss_refinement call
    i,                 \* the refinement loop's counter
    stdout,            \* what the call has printed
    cret               \* how the call ended

VARIABLES
    \* one call of gauss_method_sat / gauss_method_mpc, window by window
    opc,               \* position in the call
    oargs,             \* its arguments
    j,                 \* the window loop's counter
    arr,               \* its arrays: a_vec, e_vec, ..., t_vec, xyz_vec
    calls,             \* the gauss_iterator_* calls made, with their outcomes
    oret               \* how the call ended

VARIABLES
    \* calls of single functions, one frame each
    ad,                \* angle_diff_rad: the argument pairs to come and the calls made
    rf,                \* gauss_refinement: the next arguments, the calls made, the results
    uk,                \* univkepler: the frame of the call under way
    ukret,             \* univkepler: the calls that have returned
    ls,                \* gauss_LS_sat: the frame of the call
    ke                 \* longascnode, argperi, trueanomaly: the states to come and the calls made

coreVars == << cpc, args, poly, gauss_poly_roots, rt_len, r2_star, trace, rcalls, i, stdout, cret >>
orchVars == << opc, oargs, j, arr, calls, oret >>
auxVars == << ad, rf, uk, ukret, ls, ke >>
vars == << coreVars, orchVars, auxVars >>

\* no call of angle_diff_rad is under way
AdIdle == ad = [todo |-> << >>, done |-> << >>]
\* no chain of gauss_refinement calls is under way
RfIdle == rf = [a |-> << >>, calls |-> << >>, outs |-> << >>]
\* no call of univkepler is under way
UkIdle == uk = [pc |-> "idle"] /\ ukret = << >>
\* no call of gauss_LS_sat is under way
LsIdle == ls = [pc |-> "idle"]
\* no call of the element functions is under way
KeIdle == ke = [todo |-> << >>, done |-> << >>]
AuxIdle == AdIdle /\ RfIdle /\ UkIdle /\ LsIdle /\ KeIdle

\* ------------------------------------------------------------ inputs
\* the values a root of the root finder's answer takes: negative, zero and
\* positive reals and a complex number
RootVals ==
    { [re |-> Fl(-1), im |-> 0], [re |-> 0, im |-> 0], [re |-> Fl(1), im |-> 0],
      [re |-> Fl(2), im |-> 0], [re |-> Fl(1), im |-> Fl(1)] }
RootLists == [1..NumRoots -> RootVals]

\* the 0-based index triplets tried.  Degenerate ones, in both pipelines:
\* coplanar directions, t1 = t3, and both
DegenerateTriplets == { <<1, 3, 5>>, <<3, 2, 4>>, <<0, 1, 0>> }
\* regular ones, one reversed in time, and one with t2 = t3
CoreCalls ==
    ({"sat", "mpc"} \X DegenerateTriplets)
    \cup { <<"sat", <<0, 1, 2>> >>, <<"sat", <<2, 3, 4>> >>,
           <<"mpc", <<1, 2, 3>> >>, <<"mpc", <<2, 1, 0>> >> }

RootInds == -2..2
Flavours == {"sat", "mpc"}

Mu(flavour) == IF flavour = "sat" THEN mu_Earth ELSE mu_Sun

\* the value of the parameter r2_root_ind: its default is 0
R2RootInd(a) == IF a.has_ind THEN a.ind ELSE 0

\* gauss_estimate_sat / gauss_estimate_mpc before the core: the observations
\* and the observer positions
EstimateInputs(flavour, inds) ==
    IF flavour = "sat"
    THEN LET o == get_observations_data_sat(inds)
         IN  [obs_radec |-> o.obs_radec, obs_t |-> o.obs_t,
              R |-> get_observer_pos_wrt_earth(o.obs_radec, o.site_codes),
              Ea_hc_pos |-> << >>,
              obs_t_ret |-> [k \in 1..3 |-> Fl(o.obs_radec[k].obstime)]]
    ELSE LET o == get_observations_data(inds)
             W == get_observer_pos_wrt_sun(o.obs_radec, o.site_codes)
         IN  [obs_radec |-> o.obs_radec, obs_t |-> o.obs_t,
              R |-> W.R, Ea_hc_pos |-> W.Ea_hc_pos, obs_t_ret |-> o.obs_t]

\* ------------------------------------------------------------ one iterator call
\* no call of gauss_method_* is under way
OrchIdle ==
    /\ opc = "idle"
    /\ oargs = [flavour |-> "sat", obs_arr |-> << >>, r2_root_ind_vec |-> << >>, refiters |-> 0]
    /\ j = 0
    /\ arr = << >>
    /\ calls = << >>
    /\ oret = [kind |-> "none"]

CoreInit ==
    /\ OrchIdle
    /\ AuxIdle
    /\ cpc = "estimate"
    /\ args \in [flavour : Flavours, inds_ : {c[2] : c \in CoreCalls},
                 refiters : 0..MaxRefiters, has_ind : BOOLEAN, ind : RootInds]
    /\ << args.flavour, args.inds_ >> \in CoreCalls
    /\ (~args.has_ind => args.ind = 0)
    /\ poly = << >>
    /\ gauss_poly_roots = << >>
    /\ rt_len = << >>
    /\ r2_star = << >>
    /\ trace = << >>
    /\ rcalls = << >>
    /\ i = 0
    /\ stdout = << >>
    /\ cret = [kind |-> "none"]

In == EstimateInputs(args.flavour, args.inds_)

\* line 949: np.roots on the coefficients of P, which raises on a coefficient
\* that is not finite
CoreRootsFrom(P, answers) ==
    /\ poly' = << P >>
    /\ \E answer \in answers :
         IF np_roots(P.gauss_poly_coeffs, answer).ok
         THEN /\ gauss_poly_roots' = np_roots(P.gauss_poly_coeffs, answer).roots
              /\ cpc' = "roots"
              /\ cret' = cret
         ELSE /\ gauss_poly_roots' = << >>
              /\ cpc' = "raised"
              /\ cret' = [kind |-> "raise", exc |-> "LinAlgError"]

CoreRootsOf(P) == CoreRootsFrom(P, RootLists)

\* gauss_estimate_* and gauss_method_core, lines 902-949: the polynomial and
\* its roots
CoreRoots ==
    /\ cpc = "estimate"
    /\ CoreRootsOf(CorePoly(In.obs_radec, In.obs_t, In.R, Mu(args.flavour)))
    /\ UNCHANGED << args, rt_len, r2_star, trace, rcalls, i, stdout, orchVars, auxVars >>

\* lines 950-957: the warning (of what it prints, the count and the index)
\* variant: a warning for three admissible roots or more
MultipleRootsOver2(roots) == Len(rt_indx(roots)) > 2

\* line 951: more than one admissible root
MultipleRoots(roots) == Len(rt_indx(roots)) > 1

CoreWarn ==
    /\ cpc = "roots"
    /\ rt_len' = << Len(rt_indx(gauss_poly_roots)) >>
    /\ stdout' = IF MultipleRoots(gauss_poly_roots)
                 THEN Append(stdout, [tag |-> "WARNING",
                                      len_rt_indx |-> Len(rt_indx(gauss_poly_roots)),
                                      r2_root_ind |-> R2RootInd(args)])
                 ELSE stdout
    /\ cpc' = "select"
    /\ UNCHANGED << args, poly, gauss_poly_roots, r2_star, trace, rcalls, i, cret, orchVars, auxVars >>

\* lines 959-960: the selection, an IndexError when the index is out of range
CoreSelect ==
    /\ cpc = "select"
    /\ IF InRange(rt_indx(gauss_poly_roots), R2RootInd(args))
       THEN /\ r2_star' = << r2_star_of(gauss_poly_roots, R2RootInd(args)) >>
            /\ stdout' = Append(stdout, [tag |-> "r2_star",
                                         value |-> r2_star_of(gauss_poly_roots, R2RootInd(args))])
            /\ cpc' = "solve"
            /\ cret' = cret
       ELSE /\ cpc' = "raised"
            /\ cret' = [kind |-> "raise", exc |-> "IndexError"]
            /\ UNCHANGED << r2_star, stdout >>
    /\ UNCHANGED << args, poly, gauss_poly_roots, rt_len, trace, rcalls, i, orchVars, auxVars >>

\* lines 962-986: the slant ranges, positions and velocity; the core returns
\* and its local gauss_poly_roots is gone
CoreReturn ==
    /\ cpc = "solve"
    /\ trace' = << CoreSolve(poly[1], In.R, Mu(args.flavour), r2_star[1]) >>
    /\ gauss_poly_roots' = << >>
    /\ i' = 0
    /\ cpc' = "loop"
    /\ UNCHANGED << args, poly, rt_len, r2_star, rcalls, stdout, cret, orchVars, auxVars >>

\* the arguments with which the iterator calls gauss_refinement
\* variant: a loop that hands the object's positions on as observer positions
RefineArgsDrift(P, R, mu, cur) ==
    [mu |-> mu, tau1 |-> P.tau1, tau3 |-> P.tau3, r2 |-> cur.r2, v2 |-> cur.v2,
     atol |-> RefineAtol, D |-> P.D, R |-> << cur.r1, cur.r2, cur.r3 >>,
     rho1 |-> P.rho1, rho2 |-> P.rho2, rho3 |-> P.rho3,
     f_1 |-> cur.f1, g_1 |-> cur.g1, f_3 |-> cur.f3, g_3 |-> cur.g3]

RefineArgs(P, R, mu, cur) ==
    [mu |-> mu, tau1 |-> P.tau1, tau3 |-> P.tau3, r2 |-> cur.r2, v2 |-> cur.v2,
     atol |-> RefineAtol, D |-> P.D, R |-> R,
     rho1 |-> P.rho1, rho2 |-> P.rho2, rho3 |-> P.rho3,
     f_1 |-> cur.f1, g_1 |-> cur.g1, f_3 |-> cur.f3, g_3 |-> cur.g3]

Refinement(a) ==
    gauss_refinement(a.mu, a.tau1, a.tau3, a.r2, a.v2, a.atol, a.D, a.R,
                     a.rho1, a.rho2, a.rho3, a.f_1, a.g_1, a.f_3, a.g_3)

\* variant: a loop that stops on a velocity that is not finite
LoopWhileFinite(k, refiters, cur) == k < refiters /\ VFinite(cur.v2)

\* variant: a loop that runs its body once more
LoopOnceMore(k, refiters, cur) == k <= refiters

\* whether the iterator's for loop runs its body again
LoopGoesOn(k, refiters, cur) == k < refiters

\* variant: a refinement that writes its r2, v2 into the arrays it was given
RefineInPlace(a) ==
    /\ rcalls' = Append(rcalls, a)
    /\ trace' = Append([k \in 1..Len(trace) |->
                           IF k = Len(trace)
                           THEN [trace[k] EXCEPT !.r2 = Refinement(a).r2,
                                                 !.v2 = Refinement(a).v2]
                           ELSE trace[k]],
                       Refinement(a))

\* one pass of "for i in range(0, refiters)"
RefineWith(a) ==
    /\ rcalls' = Append(rcalls, a)
    /\ trace' = Append(trace, Refinement(a))

Refine ==
    /\ cpc = "loop"
    /\ LoopGoesOn(i, args.refiters, trace[Len(trace)])
    /\ RefineWith(RefineArgs(poly[1], In.R, Mu(args.flavour), trace[Len(trace)]))
    /\ i' = i + 1
    /\ UNCHANGED << cpc, args, poly, gauss_poly_roots, rt_len, r2_star, stdout, cret, orchVars, auxVars >>

\* the value gauss_iterator_* returns
IterResult(cur, E) ==
    [r1 |-> cur.r1, r2 |-> cur.r2, r3 |-> cur.r3, v2 |-> cur.v2, R |-> E.R,
     rho1 |-> losvector(E.obs_radec[1].ra, E.obs_radec[1].dec),
     rho2 |-> losvector(E.obs_radec[2].ra, E.obs_radec[2].dec),
     rho3 |-> losvector(E.obs_radec[3].ra, E.obs_radec[3].dec),
     rho_1_ |-> cur.rho_1_, rho_2_ |-> cur.rho_2_, rho_3_ |-> cur.rho_3_,
     Ea_hc_pos |-> E.Ea_hc_pos, obs_t |-> E.obs_t_ret]

IterReturn ==
    /\ cpc = "loop"
    /\ ~LoopGoesOn(i, args.refiters, trace[Len(trace)])
    /\ cret' = [kind |-> "return", value |-> IterResult(trace[Len(trace)], In)]
    /\ cpc' = "returned"
    /\ UNCHANGED << args, poly, gauss_poly_roots, rt_len, r2_star, trace, rcalls, i, stdout, orchVars, auxVars >>

CoreNext == CoreRoots \/ CoreWarn \/ CoreSelect \/ CoreReturn \/ Refine \/ IterReturn

SpecCore == CoreInit /\ [][CoreNext]_vars

\* ------------------------------------------------------------ the iterator as one call
\* what lines 950-960 make of the root finder's answer: the selected root, or
\* an IndexError
Selection(answer, r2_root_ind) ==
    IF InRange(rt_indx(answer), r2_root_ind)
    THEN [ok |-> TRUE, r2_star |-> r2_star_of(answer, r2_root_ind)]
    ELSE [ok |-> FALSE]
Selections(r2_root_ind) == { Selection(answer, r2_root_ind) : answer \in RootLists }

\* the for loop of gauss_iterator_*, from pass k on
RECURSIVE RefineLoop(_, _, _, _, _, _)
RefineLoop(P, R, mu, cur, k, refiters) ==
    IF LoopGoesOn(k, refiters, cur)
    THEN RefineLoop(P, R, mu, Refinement(RefineArgs(P, R, mu, cur)), k + 1, refiters)
    ELSE cur

IterOutcomeOf(E, P, mu, refiters, sel) ==
    IF ~np_roots(P.gauss_poly_coeffs, << >>).ok THEN [kind |-> "raise", exc |-> "LinAlgError"]
    ELSE IF ~sel.ok THEN [kind |-> "raise", exc |-> "IndexError"]
    ELSE [kind |-> "return",
          value |-> IterResult(RefineLoop(P, E.R, mu, CoreSolve(P, E.R, mu, sel.r2_star),
                                          0, refiters), E)]

IterOutcomeIn(E, mu, refiters, sel) ==
    IterOutcomeOf(E, CorePoly(E.obs_radec, E.obs_t, E.R, mu), mu, refiters, sel)

\* gauss_iterator_sat / gauss_iterator_mpc on the selection sel
gauss_iterator(flavour, inds_, refiters, sel) ==
    IterOutcomeIn(EstimateInputs(flavour, inds_), Mu(flavour), refiters, sel)

\* ------------------------------------------------------------ one window
\* rot_equat_to_eclip: the rotation about x by the obliquity of the ecliptic
CosEps == FlQ(9175, 10000)
SinEps == FlQ(3978, 10000)
rot_equat_to_eclip(a) ==
    << a[1], FAdd(FMul(CosEps, a[2]), FMul(SinEps, a[3])),
       FAdd(FMul(FNeg(SinEps), a[2]), FMul(CosEps, a[3])) >>

\* the frame in which a pipeline takes the elements
Frame(flavour, a) == IF flavour = "sat" THEN a ELSE rot_equat_to_eclip(a)

\* seconds per day, in the model's units of time
SecPerDay == Fl(4)
\* the mean motion taupericenter is given
TaupMotion(flavour, n_num) == IF flavour = "sat" THEN FMul(n_num, SecPerDay) ELSE n_num

\* the elements of one window; truean2eccan fails on a true anomaly of None
ElementsOf(flavour, r, v, mu, t2, a_num, e_num, f_num, n_num) ==
    IF f_num = None THEN [ok |-> FALSE, exc |-> "TypeError"]
    ELSE [ok |-> TRUE, a |-> a_num, e |-> e_num, n |-> n_num,
          taup |-> taupericenter(t2, e_num, f_num, TaupMotion(flavour, n_num)),
          w |-> rad2deg(argperi(r[1], r[2], r[3], v[1], v[2], v[3], mu)),
          I |-> rad2deg(inclination(r[1], r[2], r[3], v[1], v[2], v[3])),
          W |-> rad2deg(longascnode(r[1], r[2], r[3], v[1], v[2], v[3]))]

ElementsA(flavour, r, v, mu, t2, a_num) ==
    ElementsOf(flavour, r, v, mu, t2, a_num,
               eccentricity(r[1], r[2], r[3], v[1], v[2], v[3], mu),
               trueanomaly(r[1], r[2], r[3], v[1], v[2], v[3], mu),
               meanmotion(mu, a_num))

Elements(flavour, r, v, mu, t2) ==
    ElementsA(flavour, r, v, mu, t2, semimajoraxis(r[1], r[2], r[3], v[1], v[2], v[3], mu))

\* the elements the loop body takes from the iterator's value
WindowElements(flavour, val) ==
    Elements(flavour, Frame(flavour, val.r2), Frame(flavour, val.v2), Mu(flavour), val.obs_t[2])

\* ------------------------------------------------------------ one multi-triplet call
\* np.zeros((n,))
zeros(n) == [k \in 1..n |-> 0]

RECURSIVE SumFrom(_, _)
SumFrom(vec, k) == IF k > Len(vec) THEN 0 ELSE FAdd(vec[k], SumFrom(vec, k + 1))
\* variant: the sum over the number of observations
np_mean_nobs(vec) == FDiv(SumFrom(vec, 1), Fl(Len(vec) + 2))

\* np.mean: the sum over the length, nan (0.0/0) for an empty vector
np_mean(vec) == FDiv(SumFrom(vec, 1), Fl(Len(vec)))

Increasing(s) == \A k \in 1..(Len(s) - 1) : s[k] < s[k + 1]
\* the arcs tried: increasing lists of at least three 1-based line numbers
ObsArrs ==
    UNION { { s \in [1..n -> 1..NLines] : Increasing(s) } : n \in 3..MaxObs }
RootIndVecs(n) == [1..n -> {0, 1}]

CoreIdle ==
    /\ cpc = "idle"
    /\ args = [flavour |-> "sat", inds_ |-> << >>, refiters |-> 0, has_ind |-> FALSE, ind |-> 0]
    /\ poly = << >>
    /\ gauss_poly_roots = << >>
    /\ rt_len = << >>
    /\ r2_star = << >>
    /\ trace = << >>
    /\ rcalls = << >>
    /\ i = 0
    /\ stdout = << >>
    /\ cret = [kind |-> "none"]

\* a call of gauss_method_sat / gauss_method_mpc at its first statement
OrchStart ==
    /\ opc = "start"
    /\ oargs \in [flavour : Flavours, obs_arr : ObsArrs,
                  r2_root_ind_vec : UNION { RootIndVecs(n) : n \in 1..(MaxObs - 2) },
                  refiters : 0..MaxRefiters]
    /\ Len(oargs.r2_root_ind_vec) = Len(oargs.obs_arr) - 2
    /\ j = 0
    /\ arr = << >>
    /\ calls = << >>
    /\ oret = [kind |-> "none"]

Init ==
    /\ CoreIdle
    /\ AuxIdle
    /\ OrchStart

nobs == Len(oargs.obs_arr)

\* lines 1396-1427 (1229-1265): the arrays
\* np.zeros((n-2,)) raises ValueError for a negative dimension
AllocFails(n) == n - 2 < 0

AllocArrays ==
    /\ arr' = [a_vec |-> zeros(nobs - 2), e_vec |-> zeros(nobs - 2),
               taup_vec |-> zeros(nobs - 2), I_vec |-> zeros(nobs - 2),
               W_vec |-> zeros(nobs - 2), w_vec |-> zeros(nobs - 2),
               n_vec |-> zeros(nobs - 2), t_vec |-> zeros(nobs),
               xyz_vec |-> [k \in 1..nobs |-> Vec(0, 0, 0)],
               Ea_vec |-> [k \in 1..(nobs - 2) |-> Vec(0, 0, 0)],
               slot_writes |-> zeros(nobs)]
    /\ j' = 0
    /\ opc' = "loop"
    /\ oret' = oret

Alloc ==
    /\ opc = "start"
    /\ IF AllocFails(nobs)
       THEN /\ opc' = "raised"
            /\ oret' = [kind |-> "raise", exc |-> "ValueError"]
            /\ UNCHANGED << arr, j >>
       ELSE AllocArrays
    /\ UNCHANGED << oargs, calls, coreVars, auxVars >>

\* inds_ of window k (0-based k)
WindowInds(obs_arr, k) == << obs_arr[k + 1] - 1, obs_arr[k + 2] - 1, obs_arr[k + 3] - 1 >>
\* the root index of window k
WindowRoot(r2_root_ind_vec, k) == r2_root_ind_vec[k + 1]

\* the slots of t_vec and xyz_vec the loop body writes for window k of n
\* observations: slot 0 when k = 0, slot n - 1 when k = n - 3, and slot k + 1
\* variant: the end slots assigned by every window
SetTEveryWindow(t_vec, k, n, obs_t) ==
    [s \in 1..n |-> IF s = k + 2 THEN obs_t[2]
                    ELSE IF s = n THEN obs_t[3]
                    ELSE IF s = 1 THEN obs_t[1]
                    ELSE t_vec[s]]
SetT(t_vec, k, n, obs_t) ==
    [s \in 1..n |-> IF s = k + 2 THEN obs_t[2]
                    ELSE IF s = n /\ k = n - 3 THEN obs_t[3]
                    ELSE IF s = 1 /\ k = 0 THEN obs_t[1]
                    ELSE t_vec[s]]
SetXYZ(xyz_vec, k, n, r1, r2, r3) ==
    [s \in 1..n |-> IF s = k + 2 THEN r2
                    ELSE IF s = n /\ k = n - 3 THEN r3
                    ELSE IF s = 1 /\ k = 0 THEN r1
                    ELSE xyz_vec[s]]
\* variant: a write that also lands in the slot of the window before
PutOnto(vec, k, x) == [s \in 1..Len(vec) |-> IF s = k + 1 \/ s = k THEN x ELSE vec[s]]
\* how often each slot of t_vec and xyz_vec has been assigned, after the
\* three assignments of window k
CountWrites(w, k, n) ==
    [s \in 1..n |-> w[s] + (IF s = 1 /\ k = 0 THEN 1 ELSE 0)
                         + (IF s = n /\ k = n - 3 THEN 1 ELSE 0)
                         + (IF s = k + 2 THEN 1 ELSE 0)]
Put(vec, k, x) == [vec EXCEPT ![k + 1] = x]

\* the loop body after the iterator has returned val and the elements are el
Store(flavour, a, k, n, val, el) ==
    [a_vec |-> Put(a.a_vec, k, el.a), e_vec |-> Put(a.e_vec, k, el.e),
     taup_vec |-> Put(a.taup_vec, k, el.taup), I_vec |-> Put(a.I_vec, k, el.I),
     W_vec |-> Put(a.W_vec, k, el.W), w_vec |-> Put(a.w_vec, k, el.w),
     n_vec |-> Put(a.n_vec, k, el.n),
     t_vec |-> SetT(a.t_vec, k, n, val.obs_t),
     xyz_vec |-> SetXYZ(a.xyz_vec, k, n, Frame(flavour, val.r1), Frame(flavour, val.r2),
                        Frame(flavour, val.r3)),
     Ea_vec |-> IF flavour = "sat" THEN a.Ea_vec
                ELSE Put(a.Ea_vec, k, rot_equat_to_eclip(val.Ea_hc_pos[2])),
     slot_writes |-> CountWrites(a.slot_writes, k, n)]

WindowStore(out, el) ==
    IF el.ok
    THEN /\ arr' = Store(oargs.flavour, arr, j, nobs, out.value, el)
         /\ j' = j + 1
         /\ UNCHANGED << opc, oret >>
    ELSE /\ opc' = "raised"
         /\ oret' = [kind |-> "raise", exc |-> el.exc]
         /\ UNCHANGED << arr, j >>

\* an exception of the iterator leaves gauss_method_* as it is raised
WindowOutcome(out) ==
    /\ calls' = Append(calls, [inds_ |-> WindowInds(oargs.obs_arr, j),
                               r2_root_ind |-> WindowRoot(oargs.r2_root_ind_vec, j),
                               refiters |-> oargs.refiters, out |-> out])
    /\ IF out.kind = "raise"
       THEN /\ opc' = "raised"
            /\ oret' = out
            /\ UNCHANGED << arr, j >>
       ELSE WindowStore(out, WindowElements(oargs.flavour, out.value))

\* whether the window loop runs its body for k
WindowGoesOn(k, n) == k < n - 2

\* one pass of "for j in range (0,nobs-2)"
Window ==
    /\ opc = "loop"
    /\ WindowGoesOn(j, nobs)
    /\ \E sel \in Selections(WindowRoot(oargs.r2_root_ind_vec, j)) :
         WindowOutcome(gauss_iterator(oargs.flavour, WindowInds(oargs.obs_arr, j),
                                      oargs.refiters, sel))
    /\ UNCHANGED << oargs, coreVars, auxVars >>

\* the orbital period reported: minutes for a satellite, days otherwise
Period(flavour, n_mean) ==
    IF flavour = "sat" THEN FDiv(FDiv(TwoPi, n_mean), Fl(60)) ELSE FDiv(TwoPi, n_mean)

\* lines 1478-1551 (1318-1392): the means, reported and returned
\* Time(jd, format='jd').iso of lines 1511 and 1347, astropy (an external
\* library): releases differ on a value that is not finite, which is either
\* accepted or refused with a TypeError
TimeIso(jd) == IF IsFinite(jd) THEN {"shown"} ELSE {"shown", "TypeError"}

Means ==
    /\ opc = "loop"
    /\ ~WindowGoesOn(j, nobs)
    /\ \E shown \in TimeIso(np_mean(arr.taup_vec)) :
         IF shown = "shown"
         THEN /\ oret' = [kind |-> "return",
                          value |-> [a_mean |-> np_mean(arr.a_vec), e_mean |-> np_mean(arr.e_vec),
                                     taup_mean |-> np_mean(arr.taup_vec), w_mean |-> np_mean(arr.w_vec),
                                     I_mean |-> np_mean(arr.I_vec), W_mean |-> np_mean(arr.W_vec),
                                     T |-> Period(oargs.flavour, np_mean(arr.n_vec))]]
              /\ opc' = "returned"
         ELSE /\ oret' = [kind |-> "raise", exc |-> shown]
              /\ opc' = "raised"
    /\ UNCHANGED << oargs, j, arr, calls, coreVars, auxVars >>

Next == Alloc \/ Window \/ Means

Spec == Init /\ [][Next]_vars

\* ------------------------------------------------------------ arcs too short for a window
\* the arcs of fewer than three observations: no line, one line, two lines
ShortArrs ==
    UNION { { s \in [1..n -> 1..NLines] : Increasing(s) } : n \in 0..2 }
\* a call of gauss_method_sat / gauss_method_mpc on a short arc, at its first
\* statement
ShortStart ==
    /\ opc = "start"
    /\ oargs \in [flavour : Flavours, obs_arr : ShortArrs,
                  r2_root_ind_vec : UNION { RootIndVecs(n) : n \in 0..(MaxObs - 2) },
                  refiters : 0..MaxRefiters]
    /\ j = 0
    /\ arr = << >>
    /\ calls = << >>
    /\ oret = [kind |-> "none"]
ShortInit ==
    /\ CoreIdle
    /\ AuxIdle
    /\ ShortStart
\* the loop body is never entered
ShortNext == Alloc \/ Means
SpecShort == ShortInit /\ [][ShortNext]_vars

\* ------------------------------------------------------------ one run, step by step
\* the arcs of the runs: consecutive lines, from no observation to MaxObs
\* observations
RunArrs == { [k \in 1..n |-> k] : n \in 0..MaxObs }
\* the root indices of the runs: the same index for every window
RunRootInds == { [k \in 1..n |-> q] : n \in 0..(MaxObs - 2), q \in {0, 1} }
\* the answers of the root finder in the runs: a first root and a root
\* that fills the rest of the answer
RunAnswers == { [k \in 1..NumRoots |-> IF k = 1 THEN a ELSE b] : a \in RootVals, b \in RootVals }
\* a call of gauss_method_sat / gauss_method_mpc at its first statement, no
\* call of the iterator under way
RunInit ==
    /\ CoreIdle
    /\ AuxIdle
    /\ opc = "start"
    /\ oargs \in [flavour : Flavours, obs_arr : RunArrs, r2_root_ind_vec : RunRootInds,
                  refiters : 0..MaxRefiters]
    /\ Len(oargs.r2_root_ind_vec) = (IF nobs >= 2 THEN nobs - 2 ELSE 0)
    /\ j = 0
    /\ arr = << >>
    /\ calls = << >>
    /\ oret = [kind |-> "none"]

\* the loop body calls gauss_iterator_* for window j (lines 1434, 1271)
RunWindowStart ==
    /\ opc = "loop"
    /\ cpc = "idle"
    /\ WindowGoesOn(j, nobs)
    /\ cpc' = "estimate"
    /\ args' = [flavour |-> oargs.flavour, inds_ |-> WindowInds(oargs.obs_arr, j),
                refiters |-> oargs.refiters, has_ind |-> TRUE,
                ind |-> WindowRoot(oargs.r2_root_ind_vec, j)]
    /\ poly' = << >>
    /\ gauss_poly_roots' = << >>
    /\ rt_len' = << >>
    /\ r2_star' = << >>
    /\ trace' = << >>
    /\ i' = 0
    /\ cret' = [kind |-> "none"]
    /\ stdout' = << >>
    /\ UNCHANGED << rcalls, orchVars, auxVars >>

\* the iterator has returned or raised: the rest of the loop body
RunWindowEnd ==
    /\ opc = "loop"
    /\ cpc \in {"returned", "raised"}
    /\ WindowOutcome(cret)
    /\ cpc' = "idle"
    /\ UNCHANGED << oargs, args, poly, gauss_poly_roots, rt_len, r2_star, trace, rcalls, i,
                    stdout, cret, auxVars >>

\* lines 902-949 in a run: the polynomial and its roots
RunRoots ==
    /\ cpc = "estimate"
    /\ CoreRootsFrom(CorePoly(In.obs_radec, In.obs_t, In.R, Mu(args.flavour)), RunAnswers)
    /\ UNCHANGED << args, rt_len, r2_star, trace, rcalls, i, stdout, orchVars, auxVars >>

\* the end of the run, once no call of the iterator is under way
RunMeans == cpc = "idle" /\ Means

RunNext ==
    \/ Alloc
    \/ RunWindowStart
    \/ RunRoots
    \/ CoreWarn
    \/ CoreSelect
    \/ CoreReturn
    \/ Refine
    \/ IterReturn
    \/ RunWindowEnd
    \/ RunMeans
SpecRun == RunInit /\ [][RunNext]_vars

\* the calls of gauss_method_core the run has made
CoreCallsMade == Len(calls) + (IF cpc = "idle" THEN 0 ELSE 1)
\* lines 1021-1022: the Newton-Raphson updates of the two univkepler calls of
\* the gauss_refinement call with the arguments a
NewtonUpdates(a) ==
    << univkepler_run(a.tau1, a.r2, a.v2, a.mu, RefineIters, a.atol).i,
       univkepler_run(a.tau3, a.r2, a.v2, a.mu, RefineIters, a.atol).i >>
RECURSIVE UpdatesFrom(_, _)
UpdatesFrom(rc, k) ==
    IF k > Len(rc) THEN 0
    ELSE NewtonUpdates(rc[k])[1] + NewtonUpdates(rc[k])[2] + UpdatesFrom(rc, k + 1)

\* ------------------------------------------------------------ refinement, call after call
\* the most gauss_refinement calls chained
MaxFixCalls == 3

\* values of f1, g1, f3, g3 a refinement is entered with: those the core
\* computes for the first satellite triplet, and those the refinement settles on
FGs ==
    [f1 : {FlQ(1, 12), FlQ(7, 8)}, g1 : {FlQ(-7, 12), FlQ(-23, 24)},
     f3 : {FlQ(1, 4), FlQ(7, 8)}, g3 : {FlQ(3, 4), FlQ(23, 24)}]

\* the state a refinement is entered with: Lagrange coefficients c, and the
\* r2, v2 a step with the coefficients s has returned
RefineStart(P, R, s, c) ==
    [r2 |-> RefineDamped(P.D, R, P.rho1, P.rho2, P.rho3, s.f1, s.g1, s.f3, s.g3).r2,
     v2 |-> RefineDamped(P.D, R, P.rho1, P.rho2, P.rho3, s.f1, s.g1, s.f3, s.g3).v2,
     f1 |-> c.f1, g1 |-> c.g1, f3 |-> c.f3, g3 |-> c.g3]

RefineStartsOf(P, R, mu) ==
    { RefineArgs(P, R, mu, RefineStart(P, R, s, c)) : s \in FGs, c \in FGs }
RefineStartsIn(E, mu) == RefineStartsOf(CorePoly(E.obs_radec, E.obs_t, E.R, mu), E.R, mu)
RefineStarts == RefineStartsIn(EstimateInputs("sat", << 0, 1, 2 >>), Mu("sat"))

RefineInit ==
    /\ CoreIdle
    /\ OrchIdle
    /\ AdIdle
    /\ UkIdle
    /\ LsIdle
    /\ KeIdle
    /\ rf \in [a : RefineStarts, calls : {<< >>}, outs : {<< >>}]

\* the arguments of the next call: the r2, v2, f1, g1, f3, g3 just returned
\* (lines 1128-1129)
Chained(a, out) ==
    [a EXCEPT !.r2 = out.r2, !.v2 = out.v2,
              !.f_1 = out.f1, !.g_1 = out.g1, !.f_3 = out.f3, !.g_3 = out.g3]

RefineCallOut(out) ==
    rf' = [a |-> Chained(rf.a, out), calls |-> Append(rf.calls, rf.a),
           outs |-> Append(rf.outs, out)]

\* one call of gauss_refinement on the values of the step before
RefineCall ==
    /\ Len(rf.calls) < MaxFixCalls
    /\ RefineCallOut(Refinement(rf.a))
    /\ UNCHANGED << coreVars, orchVars, ad, uk, ukret, ls, ke >>

SpecRefine == RefineInit /\ [][RefineCall]_vars

\* ------------------------------------------------------------ univkepler, step by step
\* the two univkepler calls of one refinement (lines 1021-1022): the time
\* intervals tau1 and tau3, on the same state and parameters
KeplerDts == { << Fl(-1), Fl(1) >>, << 0, Fl(1) >>, << Fl(-1), Fl(2) >>, << Fl(1), 0 >> }
KeplerRs == { << 0, 0, Fl(1) >>, << Fl(1), Fl(1), 0 >>, << 0, 0, 0 >> }
KeplerVs == { << Fl(1), 0, 0 >>, << FlQ(25, 24), 0, FlQ(23, 24) >>, << 0, 0, 0 >> }
KeplerIters == { 1, DefaultIters, RefineIters }
\* the tolerance the iterators pass, and a coarse one
KeplerAtols == { RefineAtol, FlQ(1, 12) }
KeplerInputs ==
    [dts : KeplerDts, r : KeplerRs, v : KeplerVs, mu : {mu_Earth, mu_Sun},
     iters : KeplerIters, atol : KeplerAtols]

\* the frame of call n of the input in, before its first statement
UkFrame(in, n) ==
    [pc |-> "enter", in |-> in, n |-> n, dt |-> in.dts[n],
     r0 |-> 0, vr0 |-> 0, alpha0 |-> 0, xi |-> 0, i |-> 0, ratio_i |-> 0]

KeplerInit ==
    /\ CoreIdle
    /\ OrchIdle
    /\ AdIdle
    /\ RfIdle
    /\ LsIdle
    /\ KeIdle
    /\ uk \in { UkFrame(in, 1) : in \in KeplerInputs }
    /\ ukret = << >>

\* lines 515-522: the preliminaries and the initial estimate
UkEntered(f, r0) ==
    [f EXCEPT !.pc = "while", !.r0 = r0, !.vr0 = FDiv(Dot(f.in.r, f.in.v), r0),
              !.alpha0 = Alpha0(r0, f.in.v, f.in.mu),
              !.xi = XiStart(f.in.mu, Alpha0(r0, f.in.v, f.in.mu), f.dt),
              !.i = 0, !.ratio_i = Fl(1)]
UkEnter ==
    /\ uk.pc = "enter"
    /\ uk' = UkEntered(uk, Norm(uk.in.r))
    /\ UNCHANGED << coreVars, orchVars, ad, rf, ukret, ls, ke >>

\* lines 524-534: one Newton-Raphson update
UkUpdated(f, ratio) ==
    [f EXCEPT !.ratio_i = ratio, !.xi = FSub(f.xi, ratio), !.i = f.i + 1]
UkRatio(f) ==
    UnivRatio([r0 |-> f.r0, mu |-> f.in.mu, dt |-> f.dt], f.xi,
              FMul(f.alpha0, FSq(f.xi)),
              FDiv(FMul(f.r0, f.vr0), FSqrt(f.in.mu)),
              FSub(Fl(1), FMul(f.alpha0, f.r0)))
UkUpdate ==
    /\ uk.pc = "while"
    /\ UkGoesOn(uk.ratio_i, uk.i, uk.in.iters, uk.in.atol)
    /\ uk' = UkUpdated(uk, UkRatio(uk))
    /\ UNCHANGED << coreVars, orchVars, ad, rf, ukret, ls, ke >>

\* line 535: the call returns xi; its caller makes the second call
UkReturn ==
    /\ uk.pc = "while"
    /\ ~UkGoesOn(uk.ratio_i, uk.i, uk.in.iters, uk.in.atol)
    /\ ukret' = Append(ukret, [dt |-> uk.dt, in |-> uk.in, r0 |-> uk.r0, alpha0 |-> uk.alpha0,
                               i |-> uk.i, ratio_i |-> uk.ratio_i, value |-> uk.xi])
    /\ uk' = IF uk.n < 2 THEN UkFrame(uk.in, uk.n + 1) ELSE [uk EXCEPT !.pc = "done"]
    /\ UNCHANGED << coreVars, orchVars, ad, rf, ls, ke >>

KeplerNext == UkEnter \/ UkUpdate \/ UkReturn

SpecKepler == KeplerInit /\ [][KeplerNext]_vars

\* ------------------------------------------------------------ calls of angle_diff_rad
MaxAngleCalls == 2
\* angles of either sign, within and beyond one turn
AngleVals == { 0, Fl(1), Pi, FNeg(Pi), FMul(Fl(3), Pi), FNeg(Fl(7)) }
AnglePairs == AngleVals \X AngleVals

AngleInit ==
    /\ CoreIdle
    /\ OrchIdle
    /\ RfIdle
    /\ UkIdle
    /\ LsIdle
    /\ KeIdle
    /\ ad \in [todo : [1..MaxAngleCalls -> AnglePairs], done : {<< >>}]

\* one call: the pair at the head of the list is taken and its result kept
AngleCalled(pair) == [a1 |-> pair[1], a2 |-> pair[2], r |-> angle_diff_rad(pair[1], pair[2])]
AngleCall ==
    /\ ad.todo # << >>
    /\ ad' = [todo |-> Tail(ad.todo), done |-> Append(ad.done, AngleCalled(Head(ad.todo)))]
    /\ UNCHANGED << coreVars, orchVars, rf, uk, ukret, ls, ke >>

SpecAngle == AngleInit /\ [][AngleCall]_vars

\* ------------------------------------------------------------ calls of the element functions
MaxElemCalls == 2
\* the gravitational parameter the calls are given
ElemMu == mu_Earth
\* Cartesian states x, y, z, u, v, w: orbits in and out of the equator, with
\* the node in each half turn, outbound and inbound, a position at the
\* origin, and a state whose velocity is nan (what gauss_method_core and
\* gauss_refinement return when f1*g3 - f3*g1 is 0)
ElemStates ==
    { << Fl(1), 0, 0, 0, Fl(1), 0 >>,
      << Fl(1), 0, 0, Fl(1), Fl(1), Fl(1) >>,
      << Fl(1), 0, 0, Fl(-1), Fl(1), Fl(-1) >>,
      << 0, Fl(1), 0, Fl(1), 0, Fl(-1) >>,
      << 0, Fl(1), 0, Fl(-1), Fl(-1), Fl(1) >>,
      << 0, Fl(-1), Fl(1), Fl(1), Fl(1), 0 >>,
      << Fl(-1), Fl(1), Fl(1), 0, Fl(-1), Fl(1) >>,
      << Fl(2), Fl(1), 0, Fl(-1), 0, Fl(-1) >>,
      << 0, 0, 0, 0, Fl(1), 0 >>,
      << Fl(1), 0, 0, NaN, NaN, NaN >> }

ElemInit ==
    /\ CoreIdle
    /\ OrchIdle
    /\ AdIdle
    /\ RfIdle
    /\ UkIdle
    /\ LsIdle
    /\ ke \in [todo : [1..MaxElemCalls -> ElemStates], done : {<< >>}]

\* one call of each function on the state s
ElemCalled(s) ==
    [s |-> s,
     W |-> longascnode(s[1], s[2], s[3], s[4], s[5], s[6]),
     w |-> argperi(s[1], s[2], s[3], s[4], s[5], s[6], ElemMu),
     f |-> trueanomaly(s[1], s[2], s[3], s[4], s[5], s[6], ElemMu)]
ElemCall ==
    /\ ke.todo # << >>
    /\ ke' = [todo |-> Tail(ke.todo), done |-> Append(ke.done, ElemCalled(Head(ke.todo)))]
    /\ UNCHANGED << coreVars, orchVars, ad, rf, uk, ukret, ls >>

SpecElem == ElemInit /\ [][ElemCall]_vars

\* the choice between theta and 2 pi - theta by the sign of the radial velocity
TrueAnomalyChoice(r_vec, e_vec, v_vec) ==
    IF FGe(Dot(v_vec, r_vec), 0) THEN arccos(Dot(e_vec, r_vec))
    ELSE FSub(TwoPi, arccos(Dot(e_vec, r_vec)))
\* the node vector (-hy, hx, 0) of the state s
NodeVector(s) ==
    << FSub(FMul(s[1], s[6]), FMul(s[3], s[4])), FSub(FMul(s[2], s[6]), FMul(s[3], s[5])), 0 >>

\* ------------------------------------------------------------ residuals
\* least_squares.orbel2xyz(t, mu, a, e, taup, omega, I, Omega): the position on
\* the orbit at time t, with the eccentric anomaly taken as M + e sin M
OrbitPlane(a, e, E0) ==
    << FMul(a, FSub(cos(E0), e)), FMul(FMul(a, FSqrt(FSub(Fl(1), FSq(e)))), sin(E0)) >>
OrbitAnomaly(e, M) == FAdd(M, FMul(e, sin(M)))
\* the rotations by omega about z, I about x and Omega about z
OrbitTurn(p, omega, I, Omega) ==
    LET u == FSub(FMul(cos(omega), p[1]), FMul(sin(omega), p[2]))
        v == FAdd(FMul(sin(omega), p[1]), FMul(cos(omega), p[2]))
    IN  << FSub(FMul(cos(Omega), u), FMul(FMul(sin(Omega), cos(I)), v)),
           FAdd(FMul(sin(Omega), u), FMul(FMul(cos(Omega), cos(I)), v)),
           FMul(sin(I), v) >>
orbel2xyz(t, mu, a, e, taup, omega, I, Omega) ==
    OrbitTurn(OrbitPlane(a, e, OrbitAnomaly(e, FMul(meanmotion(mu, a), FSub(t, taup)))),
              omega, I, Omega)

\* np.arcsin: nan outside [-1, 1]
arcsin(q) ==
    IF IsNaN(q) \/ q > Fl(1) \/ q < Fl(-1) THEN NaN
    ELSE arctan2(q, FSqrt(FSub(Fl(1), FSq(q))))

\* cts.GM_earth in km^3/day^2
GM_earth_day == FMul(mu_Earth, FSq(SecPerDay))

\* what the record at 1-based line number ind gives: timeobs.jd and the
\* observed right ascension and declination in radians
LineJd(ind) == Fl(ObsFile[ind].t)
LineRa(ind) == FMul(Fl(ObsFile[ind].ra), HalfPi)
LineDec(ind) == FMul(Fl(ObsFile[ind].dec), HalfPi)

\* vec[idx] = val with Python's indexing: a negative idx counts from the end
PySet(vec, idx, val) == [vec EXCEPT ![IF idx < 0 THEN idx + Len(vec) + 1 ELSE idx + 1] = val]

\* radec_obs_vec: rov[2*i-2], rov[2*i-1] = ra, dec of inds[i], for i = 0..len(inds)-1
RECURSIVE RovLoop(_, _, _)
RovLoop(rov, inds, q) ==
    IF q < Len(inds)
    THEN RovLoop(PySet(PySet(rov, 2 * q - 2, LineRa(inds[q + 1])),
                       2 * q - 1, LineDec(inds[q + 1])),
                 inds, q + 1)
    ELSE rov
radec_obs_vec(inds) == RovLoop(zeros(2 * Len(inds)), inds, 0)

\* the direction from the station to the object, as ra in [0, 2 pi) and dec
Direction(rho_vec_unit) ==
    << FMod(arctan2(rho_vec_unit[2], rho_vec_unit[1]), TwoPi), arcsin(rho_vec_unit[3]) >>
ComputedRaDec(x, ind) ==
    Direction(Unit(VAdd(orbel2xyz(LineJd(ind), GM_earth_day, x[1], x[2], x[3], x[4], x[5], x[6]),
                        VScale(Fl(-1), observerpos(ObsFile[ind].site, ObsFile[ind].t)))))
\* diff_ra, diff_dec of one pass of the loop
ResidualPair(ra_obs, dec_obs, comp) ==
    << angle_diff_rad(ra_obs, comp[1]), angle_diff_rad(dec_obs, comp[2]) >>

\* t_radec_res_vec: the loop over i = 0..len(inds)-1
RECURSIVE ResLoop(_, _, _, _, _)
ResPass(out, x, inds, rov, q, pair) ==
    ResLoop([tv |-> [out.tv EXCEPT ![q + 1] = LineJd(inds[q + 1])],
             rv |-> PySet(PySet(out.rv, 2 * q - 2, pair[1]), 2 * q - 1, pair[2])],
            x, inds, rov, q + 1)
ResLoop(out, x, inds, rov, q) ==
    IF q < Len(inds)
    THEN ResPass(out, x, inds, rov, q,
                 ResidualPair(PyIndex(rov, 2 * q - 2), PyIndex(rov, 2 * q - 1),
                              ComputedRaDec(x, inds[q + 1])))
    ELSE out
t_radec_res_vec(x, inds, rov) ==
    ResLoop([tv |-> zeros(Len(inds)), rv |-> zeros(2 * Len(inds))], x, inds, rov, 0)
\* radec_res_vec_rov: the same loop without the times
radec_res_vec_rov(x, inds, rov) == t_radec_res_vec(x, inds, rov).rv

\* ------------------------------------------------------------ gauss_LS_sat
\* q0 = np.array(gauss_method_sat(...)): a, e, taup, w, I, W, T
Q0Of(val) ==
    << val.a_mean, val.e_mean, val.taup_mean, val.w_mean, val.I_mean, val.W_mean, val.T >>
\* variant: the order the comment above the call names (a, e, taup, I, W, w)
SeedAsCommented(q0) ==
    << q0[1], q0[2], q0[3], deg2rad(q0[5]), deg2rad(q0[6]), deg2rad(q0[4]) >>
\* x0 = q0[0:6]; x0[3:6] = np.deg2rad(x0[3:6])
Seed(q0) == [k \in 1..6 |-> IF k >= 4 THEN deg2rad(q0[k]) ELSE q0[k]]

\* the elements orbel2xyz is given by the residual function for the vector x
ResidualElements(x) ==
    [a |-> x[1], e |-> x[2], taup |-> x[3], omega |-> x[4], I |-> x[5], Omega |-> x[6]]

\* scipy.optimize.least_squares with method='lm': the status it can end
\* with (above 0: a tolerance was met) and the vector it ends at, or the
\* exception it raises on residuals that are not finite
SolverStatuses == { -1, 0, 1, 2, 3, 4 }
SolverMessage(status) ==
    CASE status = -1 -> "improper input"
      [] status = 0 -> "max evaluations exceeded"
      [] status = 1 -> "gtol satisfied"
      [] status = 2 -> "ftol satisfied"
      [] status = 3 -> "xtol satisfied"
      [] status = 4 -> "ftol and xtol satisfied"
SolverXs(x0) == { x0, [x0 EXCEPT ![1] = FAdd(x0[1], Fl(1)), ![4] = FSub(x0[4], FlQ(1, 4))] }
SolverAnswers(x0) ==
    { [kind |-> "raise", exc |-> "ValueError"] }
    \cup { [kind |-> "return", x |-> x, status |-> st, message |-> SolverMessage(st)] :
           x \in SolverXs(x0), st \in SolverStatuses }

\* the frame of a call of gauss_LS_sat that has reached the call of gauss_method_sat
LsFrame ==
    [pc |-> "gauss", x0 |-> << >>, rov |-> << >>, rv0 |-> << >>, solver |-> << >>,
     Q_ls |-> << >>, stdout |-> << >>, tv_star |-> << >>, rv_star |-> << >>,
     ret |-> [kind |-> "none"]]

LsInit ==
    /\ CoreIdle
    /\ AdIdle
    /\ RfIdle
    /\ UkIdle
    /\ OrchStart
    /\ oargs.flavour = "sat"
    /\ ls = LsFrame
    /\ KeIdle

\* line 1566: an exception of gauss_method_sat leaves gauss_LS_sat as it is raised
LsGaussRaised ==
    /\ ls.pc = "gauss"
    /\ opc = "raised"
    /\ ls' = [ls EXCEPT !.pc = "raised", !.ret = oret]
    /\ UNCHANGED << coreVars, orchVars, ad, rf, uk, ukret, ke >>

\* obs_arr_ls = np.array(range(1, len(iod_object_data)+1))
obs_arr_ls == [k \in 1..NLines |-> k]

\* lines 1566-1582: the initial vector from the Gauss solution, the observed
\* angles and the residuals at the initial vector
LsSeed ==
    /\ ls.pc = "gauss"
    /\ opc = "returned"
    /\ ls' = [ls EXCEPT !.pc = "seeded", !.x0 = Seed(Q0Of(oret.value)),
                        !.rov = radec_obs_vec(obs_arr_ls),
                        !.rv0 = radec_res_vec_rov(Seed(Q0Of(oret.value)), obs_arr_ls,
                                                  radec_obs_vec(obs_arr_ls))]
    /\ UNCHANGED << coreVars, orchVars, ad, rf, uk, ukret, ke >>

\* lines 1587-1590: the solver is called on x0; its status and message are printed
LsSolved(ans) ==
    IF ans.kind = "raise"
    THEN [ls EXCEPT !.pc = "raised", !.solver = Append(ls.solver, ls.x0), !.ret = ans]
    ELSE [ls EXCEPT !.pc = "solved", !.solver = Append(ls.solver, ls.x0), !.Q_ls = << ans >>,
                    !.stdout = ls.stdout \o << [status |-> ans.status],
                                               [message |-> ans.message] >>]
LsSolve ==
    /\ ls.pc = "seeded"
    /\ \E ans \in SolverAnswers(ls.x0) : ls' = LsSolved(ans)
    /\ UNCHANGED << coreVars, orchVars, ad, rf, uk, ukret, ke >>

\* lines 1593-1673: the residuals at the solution and the value returned
LsValue(Q) ==
    << Q.x[1], Q.x[2], [jd |-> Q.x[3]], rad2deg(Q.x[4]), rad2deg(Q.x[5]), rad2deg(Q.x[6]),
       Period("sat", meanmotion(mu_Earth, Q.x[1])) >>
LsReturn ==
    /\ ls.pc = "solved"
    /\ ls' = [ls EXCEPT !.pc = "returned",
                        !.tv_star = t_radec_res_vec(ls.Q_ls[1].x, obs_arr_ls, ls.rov).tv,
                        !.rv_star = t_radec_res_vec(ls.Q_ls[1].x, obs_arr_ls, ls.rov).rv,
                        !.ret = [kind |-> "return", value |-> LsValue(ls.Q_ls[1])]]
    /\ UNCHANGED << coreVars, orchVars, ad, rf, uk, ukret, ke >>

LsNext == Alloc \/ Window \/ Means \/ LsGaussRaised \/ LsSeed \/ LsSolve \/ LsReturn

SpecLS == LsInit /\ [][LsNext]_vars

\* ------------------------------------------------------------ properties
\* the 0-based index triplet of window k of obs_arr
ClaimedInds(obs_arr, k) == << obs_arr[k + 1] - 1, obs_arr[k + 2] - 1, obs_arr[k + 3] - 1 >>

\* the per-window values stored for the call c at slot k are the elements of
\* the call's result
StoredFrom(flavour, a, k, el) ==
    /\ el.ok
    /\ a.a_vec[k] = el.a /\ a.e_vec[k] = el.e /\ a.taup_vec[k] = el.taup
    /\ a.w_vec[k] = el.w /\ a.I_vec[k] = el.I /\ a.W_vec[k] = el.W

\* C1: for N >= 3 observations the iterator is called N-2 times, in window
\* order j = 0..N-3, window j on obs_arr[j], obs_arr[j+1], obs_arr[j+2] with
\* r2_root_ind_vec[j]; each reported element is the sum of the N-2 per-window
\* values divided by N-2.
C1_WindowsAndMeans ==
    /\ \A k \in 1..Len(calls) :
          /\ calls[k].inds_ = ClaimedInds(oargs.obs_arr, k - 1)
          /\ calls[k].r2_root_ind = oargs.r2_root_ind_vec[k]
          /\ calls[k].refiters = oargs.refiters
    /\ opc = "returned" =>
          /\ nobs >= 3
          /\ Len(calls) = nobs - 2
          /\ \A k \in 1..(nobs - 2) :
                /\ calls[k].out.kind = "return"
                /\ StoredFrom(oargs.flavour, arr, k,
                              WindowElements(oargs.flavour, calls[k].out.value))
          /\ oret.value.a_mean = FDiv(SumFrom(arr.a_vec, 1), Fl(nobs - 2))
          /\ oret.value.e_mean = FDiv(SumFrom(arr.e_vec, 1), Fl(nobs - 2))
          /\ oret.value.taup_mean = FDiv(SumFrom(arr.taup_vec, 1), Fl(nobs - 2))
          /\ oret.value.w_mean = FDiv(SumFrom(arr.w_vec, 1), Fl(nobs - 2))
          /\ oret.value.I_mean = FDiv(SumFrom(arr.I_vec, 1), Fl(nobs - 2))
          /\ oret.value.W_mean = FDiv(SumFrom(arr.W_vec, 1), Fl(nobs - 2))

\* a four-observation arc with two root indices has returned finite means of
\* two different per-window values
C1_Witness ==
    /\ opc = "returned"
    /\ nobs = 4
    /\ oargs.r2_root_ind_vec = << 0, 1 >>
    /\ arr.a_vec[1] # arr.a_vec[2]
    /\ IsFinite(oret.value.a_mean)
    /\ IsFinite(oret.value.W_mean)

\* C2: a window whose core or refinement fails does not end the call of
\* gauss_method_sat / gauss_method_mpc with the failure: the remaining
\* windows are processed and a solution over the windows that succeeded is
\* returned with their number.
C2_FailedWindowSkipped ==
    \A k \in 1..Len(calls) : calls[k].out.kind = "raise" => oret.kind # "raise"

\* C3: when more than one root is admissible the core has printed the number
\* of admissible roots and the root index before it selects the root, and it
\* goes on to select the root at that index rather than fail.
C3_WarnsThenSelects ==
    /\ (cpc \in {"select", "solve"} /\ Len(rt_indx(gauss_poly_roots)) > 1) =>
          /\ Len(stdout) >= 1
          /\ stdout[1] = [tag |-> "WARNING",
                          len_rt_indx |-> Len(rt_indx(gauss_poly_roots)),
                          r2_root_ind |-> R2RootInd(args)]
          /\ cret.kind = "none"
          /\ cpc = "select" => Len(stdout) = 1
          /\ cpc = "solve" => (Len(stdout) = 2 /\ stdout[2].tag = "r2_star")
    /\ (cpc = "raised" /\ cret.exc = "IndexError") =>
          ~(0 <= R2RootInd(args) /\ R2RootInd(args) < Len(rt_indx(gauss_poly_roots)))

\* three admissible roots, the warning printed, the root at index 1 selected
C3_Witness ==
    /\ cpc = "solve"
    /\ Len(rt_indx(gauss_poly_roots)) = 3
    /\ Len(stdout) = 2
    /\ stdout[1].tag = "WARNING"
    /\ R2RootInd(args) = 1

\* the admissible roots in the root finder's order
Candidates(roots) == SelectSeq(roots, Admissible)

\* C4: with a root index k >= 0 the distance used is the k-th (0-based) of
\* the admissible roots in the order the root finder returned them; with no
\* index supplied it is the first.
C4_RootAtIndex ==
    (cpc = "solve" /\ R2RootInd(args) >= 0) =>
        /\ r2_star = << Candidates(gauss_poly_roots)[R2RootInd(args) + 1].re >>
        /\ ~args.has_ind => r2_star = << Candidates(gauss_poly_roots)[1].re >>

\* index 1 has selected the second admissible root, past a root that is not
\* admissible
C4_Witness ==
    /\ cpc = "solve"
    /\ args.has_ind /\ args.ind = 1
    /\ ~Admissible(gauss_poly_roots[1])
    /\ Len(Candidates(gauss_poly_roots)) = 2
    /\ r2_star = << gauss_poly_roots[3].re >>

\* C5: whatever the root index, the root used is a real, non-negative root of
\* the answer.
C5_RootRealNonNegative ==
    r2_star # << >> =>
        /\ r2_star[1] >= 0
        /\ IsFinite(r2_star[1])
        /\ cpc = "solve" =>
              \E k \in 1..Len(gauss_poly_roots) :
                  /\ gauss_poly_roots[k].im = 0
                  /\ gauss_poly_roots[k].re = r2_star[1]

\* a negative index has selected a root of an answer that holds a negative
\* and a complex root
C5_Witness ==
    /\ cpc = "solve"
    /\ args.has_ind /\ args.ind < 0
    /\ \E k \in 1..Len(gauss_poly_roots) : gauss_poly_roots[k].re < 0
    /\ \E k \in 1..Len(gauss_poly_roots) : gauss_poly_roots[k].im # 0

\* C6: the iterator returns an estimate only when the root index is at least
\* 0 and less than the number of admissible roots.
C6_EstimateOnlyInRange ==
    cret.kind = "return" => (0 <= R2RootInd(args) /\ R2RootInd(args) < rt_len[1])

\* C7: when tau = 0 or D0 = 0 the core fails: the call ends in an exception
\* and no state vector is produced.
C7_DegenerateFails ==
    (poly # << >> /\ (poly[1].tau = 0 \/ poly[1].D0 = 0)) =>
        /\ cpc = "raised"
        /\ cret.kind = "raise"
        /\ trace = << >>

\* the core has failed on tau = 0 with D0 # 0
C7_Witness ==
    /\ cpc = "raised"
    /\ poly # << >>
    /\ poly[1].tau = 0
    /\ IsFinite(poly[1].D0) /\ poly[1].D0 # 0

\* C8: neither the core nor the refinement returns values whose Lagrange
\* coefficients have f1*g3 - f3*g1 = 0.
C8_ZeroDenominatorFails ==
    \A k \in 1..Len(trace) :
        FSub(FMul(trace[k].f1, trace[k].g3), FMul(trace[k].f3, trace[k].g1)) # 0

\* the values the iterator returns are those of the step st
ReturnsStep(val, st) ==
    /\ val.r1 = st.r1 /\ val.r2 = st.r2 /\ val.r3 = st.r3 /\ val.v2 = st.v2
    /\ val.rho_1_ = st.rho_1_ /\ val.rho_2_ = st.rho_2_ /\ val.rho_3_ = st.rho_3_

\* C9: the iterator calls the refinement exactly refiters times after the one
\* core call, each call on the r2, v2, f1, g1, f3, g3 of the step before,
\* whatever the values; with refiters = 0 it returns the core's values.
C9_RefitersCalls ==
    /\ Len(rcalls) <= args.refiters
    /\ \A k \in 1..Len(rcalls) :
          /\ Len(trace) >= k
          /\ rcalls[k].r2 = trace[k].r2 /\ rcalls[k].v2 = trace[k].v2
          /\ rcalls[k].f_1 = trace[k].f1 /\ rcalls[k].g_1 = trace[k].g1
          /\ rcalls[k].f_3 = trace[k].f3 /\ rcalls[k].g_3 = trace[k].g3
    /\ cret.kind = "return" =>
          /\ Len(rcalls) = args.refiters
          /\ Len(trace) = args.refiters + 1
          /\ ReturnsStep(cret.value, trace[args.refiters + 1])

\* two refinements were made although the first returned a velocity that is
\* not finite
C9_Witness ==
    /\ cret.kind = "return"
    /\ args.refiters = 2
    /\ Len(rcalls) = 2
    /\ ~VFinite(trace[2].v2)

\* the refinement step from arguments a to result out, given the recomputed
\* coefficients N: the coefficients are means, and the slant range of the
\* middle observation and the velocity follow from the means
AveragedStep(a, out, N, D0) ==
    /\ out.f1 = FDiv(FAdd(a.f_1, N.f1), Fl(2))
    /\ out.g1 = FDiv(FAdd(a.g_1, N.g1), Fl(2))
    /\ out.f3 = FDiv(FAdd(a.f_3, N.f3), Fl(2))
    /\ out.g3 = FDiv(FAdd(a.g_3, N.g3), Fl(2))
    /\ out.v2 = VDivS(VAdd(VScale(FNeg(out.f3), out.r1), VScale(out.f1, out.r3)),
                      FSub(FMul(out.f1, out.g3), FMul(out.f3, out.g1)))
    /\ out.rho_2_ =
          FDiv(FSub(FAdd(FMul(FNeg(FDiv(out.g3, FSub(FMul(out.f1, out.g3),
                                                   FMul(out.f3, out.g1)))), a.D[1][2]),
                         a.D[2][2]),
                    FMul(FDiv(FNeg(out.g1), FSub(FMul(out.f1, out.g3), FMul(out.f3, out.g1))),
                         a.D[3][2])),
               D0)
    /\ out.r2 = VAdd(a.R[2], VScale(out.rho_2_, a.rho2))

\* C10: every refinement returns, for each of f1, g1, f3, g3, the mean of the
\* value it was given and the value recomputed from the universal anomaly,
\* and its velocity and slant ranges are computed from those means.
C10_AveragedCoefficients ==
    \A k \in 1..Len(rcalls) :
        AveragedStep(rcalls[k], trace[k + 1],
                     Recomputed(rcalls[k].mu, rcalls[k].tau1, rcalls[k].tau3,
                                rcalls[k].r2, rcalls[k].v2, rcalls[k].atol),
                     poly[1].D0)

\* a refinement has returned finite values with f1 changed by the averaging
C10_Witness ==
    /\ Len(rcalls) >= 1
    /\ Len(trace) >= 2
    /\ IsFinite(trace[2].f1)
    /\ trace[2].f1 # rcalls[1].f_1
    /\ VFinite(trace[2].v2)

\* the mean of two floats
Mean2(x, y) == FDiv(FAdd(x, y), Fl(2))

\* the arguments a are converged: they are finite, each Lagrange coefficient
\* is the mean of itself and the value N recomputed from r2, v2, and r2, v2
\* are the ones of the step S that these coefficients give
ConvergedAt(a, N, S) ==
    /\ VFinite(a.r2) /\ VFinite(a.v2)
    /\ IsFinite(a.f_1) /\ IsFinite(a.g_1) /\ IsFinite(a.f_3) /\ IsFinite(a.g_3)
    /\ Mean2(a.f_1, N.f1) = a.f_1 /\ Mean2(a.g_1, N.g1) = a.g_1
    /\ Mean2(a.f_3, N.f3) = a.f_3 /\ Mean2(a.g_3, N.g3) = a.g_3
    /\ S.r2 = a.r2 /\ S.v2 = a.v2
\* the step the coefficients of a give
StepOf(a) == RefineDamped(a.D, a.R, a.rho1, a.rho2, a.rho3, a.f_1, a.g_1, a.f_3, a.g_3)
Converged(a) ==
    ConvergedAt(a, Recomputed(a.mu, a.tau1, a.tau3, a.r2, a.v2, a.atol), StepOf(a))

\* the result out is the converged state of the arguments a
KeepsState(a, out, S) ==
    /\ out.f1 = a.f_1 /\ out.g1 = a.g_1 /\ out.f3 = a.f_3 /\ out.g3 = a.g_3
    /\ out.r2 = a.r2 /\ out.v2 = a.v2
    /\ out.r1 = S.r1 /\ out.r3 = S.r3

Capped(c) == c.i = c.in.iters /\ FGt(FAbs(c.ratio_i), c.in.atol)

\* the number of steps the two calls can still take: a bound that every step
\* lowers
UkStepsLeft(f) ==
    (2 - f.n) * (f.in.iters + 2)
    + (IF f.pc = "enter" THEN f.in.iters + 2
       ELSE IF f.pc = "while" THEN f.in.iters + 1 - f.i
       ELSE 0)

\* C12: univkepler terminates: it makes at most iters Newton-Raphson updates
\* (every step lowers a bound on the steps left), makes no further update
\* once the last step f_i/g_i is not above the tolerance, and returns its
\* last iterate: no call ends in an exception, also when the cap is reached
\* without convergence.
C12_UnivkeplerTerminates ==
    /\ [](uk.pc \in {"enter", "while", "done"})
    /\ [](uk.pc = "while" => uk.i <= uk.in.iters)
    /\ [](\A k \in 1..Len(ukret) :
             /\ ukret[k].i <= ukret[k].in.iters
             /\ ukret[k].i < ukret[k].in.iters =>
                   ~FGt(FAbs(ukret[k].ratio_i), ukret[k].in.atol))
    /\ [][/\ UkStepsLeft(uk') < UkStepsLeft(uk)
          /\ UkStepsLeft(uk') >= 0
          /\ (uk.pc = "while" /\ (uk.i = uk.in.iters
                                  \/ (uk.i > 0 /\ ~FGt(FAbs(uk.ratio_i), uk.in.atol))))
                 => (/\ uk'.pc # "while"
                     /\ Len(ukret') = Len(ukret) + 1
                     /\ ukret'[Len(ukret')].value = uk.xi)]_vars

\* of the two calls one has stopped on the tolerance after some updates and
\* before the cap, the other at the cap without convergence
C12_Witness ==
    /\ Len(ukret) = 2
    /\ \E k \in 1..2 : ukret[k].i > 1 /\ ukret[k].i < ukret[k].in.iters
                       /\ IsFinite(ukret[k].value)
    /\ \E k \in 1..2 : Capped(ukret[k]) /\ IsFinite(ukret[k].value)

\* what a call of univkepler with the limits (iters, atol) leaves in its
\* loop variables, for the state and time step of the returned call c
OtherRun(c, iters, atol) ==
    univkepler_run(c.dt, c.in.r, c.in.v, c.in.mu, iters, atol)
RunCapped(run, iters, atol) == run.i = iters /\ FGt(FAbs(run.ratio_i), atol)

\* C13: what univkepler hands to its caller (the returned value; the function
\* prints nothing) tells a call that ended at the cap without convergence
\* from one that converged: no call of the same state and time step returns
\* the value of a capped call and yet has met its tolerance.
C13_CallerInformed ==
    \A k \in 1..Len(ukret) :
        \A iters \in KeplerIters, atol \in KeplerAtols :
            (Capped(ukret[k]) /\ OtherRun(ukret[k], iters, atol).xi = ukret[k].value)
                => RunCapped(OtherRun(ukret[k], iters, atol), iters, atol)

\* C14: a call of univkepler with dt = 0 on a state of non-zero position
\* returns the universal anomaly 0, and the Lagrange coefficients computed
\* from it with tau = 0 are f = 1 and g = 0.
C14_ZeroStep ==
    \A k \in 1..Len(ukret) :
        (ukret[k].dt = 0 /\ ukret[k].r0 # 0) =>
            /\ ukret[k].value = 0
            /\ lagrangef_(ukret[k].value, FMul(ukret[k].alpha0, FSq(ukret[k].value)),
                          ukret[k].r0) = Fl(1)
            /\ lagrangeg_(0, ukret[k].value, FMul(ukret[k].alpha0, FSq(ukret[k].value)),
                          ukret[k].in.mu) = 0
C14_Witness ==
    \E k \in 1..Len(ukret) :
        /\ ukret[k].dt = 0
        /\ ukret[k].r0 # 0
        /\ ukret[k].in.v # << 0, 0, 0 >>
        /\ ukret[k].alpha0 # 0
        /\ ukret[k].i = 1
        /\ ukret[k].value = 0

\* the calls of angle_diff_rad whose angles differ by a half turn, modulo turns
HalfTurnApart(c) == FMod(FSub(c.a2, c.a1), TwoPi) = Pi

\* C15: every result of angle_diff_rad lies in (-pi, pi]: it is never -pi,
\* and it is +pi when a2 - a1 is congruent to pi modulo 2 pi.
C15_HalfOpenAbove ==
    \A k \in 1..Len(ad.done) :
        /\ FGt(ad.done[k].r, FNeg(Pi))
        /\ ~FGt(ad.done[k].r, Pi)
        /\ HalfTurnApart(ad.done[k]) => ad.done[k].r = Pi

\* two calls made with the same angles in the two orders
Swapped(c, d) == c.a1 = d.a2 /\ c.a2 = d.a1

\* C16 as stated: angle_diff_rad(a1, a2) = -angle_diff_rad(a2, a1) for all
\* angles, including those that differ by exactly pi.
C16_Antisymmetric ==
    \A k, l \in 1..Len(ad.done) :
        Swapped(ad.done[k], ad.done[l]) => ad.done[k].r = FNeg(ad.done[l].r)

\* C16: angle_diff_rad(a1, a2) = -angle_diff_rad(a2, a1) whenever a2 - a1 is
\* not congruent to pi modulo 2 pi; when it is, the two orders return the
\* same value.
C16_AntisymmetricOffHalfTurn ==
    \A k, l \in 1..Len(ad.done) :
        Swapped(ad.done[k], ad.done[l]) =>
            IF HalfTurnApart(ad.done[k])
            THEN ad.done[k].r = ad.done[l].r
            ELSE ad.done[k].r = FNeg(ad.done[l].r)
C16_Witness ==
    /\ Len(ad.done) = 2
    /\ Swapped(ad.done[1], ad.done[2])
    /\ ~HalfTurnApart(ad.done[1])
    /\ ad.done[1].r # 0
    /\ FGt(FAbs(FSub(ad.done[1].a2, ad.done[1].a1)), TwoPi)

\* C17: angle_diff_rad(a, a) = 0 for every angle a, of any sign and magnitude.
C17_SameAngle ==
    \A k \in 1..Len(ad.done) :
        ad.done[k].a1 = ad.done[k].a2 => ad.done[k].r = 0
C17_Witness ==
    \E k, l \in 1..Len(ad.done) :
        /\ ad.done[k].a1 = ad.done[k].a2
        /\ ad.done[l].a1 = ad.done[l].a2
        /\ FGt(ad.done[k].a1, TwoPi)
        /\ FLt(ad.done[l].a1, FNeg(TwoPi))
        /\ ad.done[k].r = 0
        /\ ad.done[l].r = 0

\* the arrays of an arc of n observations before its first window
Allocated(n) ==
    [a_vec |-> zeros(n - 2), e_vec |-> zeros(n - 2), taup_vec |-> zeros(n - 2),
     I_vec |-> zeros(n - 2), W_vec |-> zeros(n - 2), w_vec |-> zeros(n - 2),
     n_vec |-> zeros(n - 2), t_vec |-> zeros(n),
     xyz_vec |-> [k \in 1..n |-> Vec(0, 0, 0)],
     Ea_vec |-> [k \in 1..(n - 2) |-> Vec(0, 0, 0)],
     slot_writes |-> zeros(n)]
\* the orders in which n windows can be evaluated
Orders(n) == { s \in [1..n -> 0..(n - 1)] : \A p, q \in 1..n : s[p] = s[q] => p = q }
\* the loop body of window k on the arrays a, with the result of its own call
StoreOwn(a, k) ==
    Store(oargs.flavour, a, k, nobs, calls[k + 1].out.value,
          WindowElements(oargs.flavour, calls[k + 1].out.value))
\* the arrays after the windows order[p], order[p+1], ... have been stored
RECURSIVE Replay(_, _, _)
Replay(a, order, p) ==
    IF p > Len(order) THEN a ELSE Replay(StoreOwn(a, order[p]), order, p + 1)

FitConverged(Q) == Q.status > 0

\* C19: the value gauss_LS_sat returns lets its caller tell a fit that
\* converged from one that did not: no answer of the solver with the other
\* verdict leads to the same returned value.
C19_StatusReturned ==
    ls.pc = "returned" =>
        \A Q \in SolverAnswers(ls.x0) :
            (Q.kind = "return" /\ LsValue(Q) = ls.ret.value)
                => (FitConverged(Q) <=> FitConverged(ls.Q_ls[1]))

C21_SlotsOfWindows ==
    opc = "returned" =>
        /\ nobs >= 3
        /\ \A s \in 1..nobs : arr.slot_writes[s] = 1
        /\ arr.t_vec[1] = calls[1].out.value.obs_t[1]
        /\ arr.xyz_vec[1] = Frame(oargs.flavour, calls[1].out.value.r1)
        /\ arr.t_vec[nobs] = calls[nobs - 2].out.value.obs_t[3]
        /\ arr.xyz_vec[nobs] = Frame(oargs.flavour, calls[nobs - 2].out.value.r3)
        /\ \A k \in 1..(nobs - 2) :
              /\ arr.t_vec[k + 1] = calls[k].out.value.obs_t[2]
              /\ arr.xyz_vec[k + 1] = Frame(oargs.flavour, calls[k].out.value.r2)
C21_Witness ==
    /\ opc = "returned"
    /\ nobs = 4
    /\ arr.t_vec[1] # arr.t_vec[2]
    /\ arr.t_vec[3] # arr.t_vec[4]
    /\ arr.xyz_vec[1] # arr.xyz_vec[4]
    /\ arr.xyz_vec[2] # arr.xyz_vec[3]
    /\ calls[1].out.value.obs_t[1] # calls[2].out.value.obs_t[1]
    /\ VFinite(arr.xyz_vec[1])
    /\ VFinite(arr.xyz_vec[4])

C24_ResidualLayout ==
    ls.pc = "returned" =>
        \A k \in 1..NLines :
            /\ ls.tv_star[k] = LineJd(obs_arr_ls[k])
            /\ << ls.rv_star[2 * k - 1], ls.rv_star[2 * k] >> =
                  ResidualPair(LineRa(obs_arr_ls[k]), LineDec(obs_arr_ls[k]),
                               ComputedRaDec(ls.Q_ls[1].x, obs_arr_ls[k]))

\* C25: every root the core admits as a candidate for r2 is strictly
\* positive, a root equal to 0 is not admitted, and so r2**3, by which the
\* slant range and the Lagrange coefficients divide, is never 0.
C25_AdmittedStrictlyPositive ==
    /\ \A k \in 1..Len(rt_indx(gauss_poly_roots)) :
           PyIndex(gauss_poly_roots, rt_indx(gauss_poly_roots)[k]).re > 0
    /\ r2_star # << >> => FCube(r2_star[1]) # 0

\* C26: for every state longascnode returns a value in [0, 2 pi): an arctan2
\* result that is not negative is returned unchanged, a negative one
\* increased by 2 pi, and neither 2 pi nor a negative value is returned.
C26_NodeWithinTurn ==
    \A k \in 1..Len(ke.done) :
        /\ ke.done[k].W >= 0
        /\ ke.done[k].W < TwoPi

\* C27: for every state trueanomaly returns a numeric angle, the angle theta
\* between the eccentricity vector and the position when the radial velocity
\* is not negative and 2 pi - theta otherwise, argperi chooses likewise by
\* the sign of the eccentricity vector's z component, and neither function
\* returns without a value.
C27_QuadrantBySign ==
    \A k \in 1..Len(ke.done) :
        /\ ke.done[k].f # None
        /\ ke.done[k].w # None
        /\ ke.done[k].f =
              TrueAnomalyChoice(Unit(<< ke.done[k].s[1], ke.done[k].s[2], ke.done[k].s[3] >>),
                                Unit(rungelenz(ke.done[k].s[1], ke.done[k].s[2], ke.done[k].s[3],
                                               ke.done[k].s[4], ke.done[k].s[5], ke.done[k].s[6],
                                               ElemMu)),
                                << ke.done[k].s[4], ke.done[k].s[5], ke.done[k].s[6] >>)
        /\ ke.done[k].w =
              ArgPeriOf(Unit(NodeVector(ke.done[k].s)),
                        Unit(rungelenz(ke.done[k].s[1], ke.done[k].s[2], ke.done[k].s[3],
                                       ke.done[k].s[4], ke.done[k].s[5], ke.done[k].s[6],
                                       ElemMu)))

\* C28: every gauss_refinement call of one iterator call is given the D, R,
\* rho1, rho2, rho3, tau1, tau3 and mu of the core; what differs from one call
\* to the next is the r2, v2, f1, g1, f3, g3 of the pass before.
C28_CoreQuantitiesFixed ==
    \A k \in 1..Len(rcalls) :
        /\ rcalls[k].D = poly[1].D
        /\ rcalls[k].R = In.R
        /\ rcalls[k].rho1 = poly[1].rho1
        /\ rcalls[k].rho2 = poly[1].rho2
        /\ rcalls[k].rho3 = poly[1].rho3
        /\ rcalls[k].tau1 = poly[1].tau1
        /\ rcalls[k].tau3 = poly[1].tau3
        /\ rcalls[k].mu = Mu(args.flavour)
        /\ rcalls[k].r2 = trace[k].r2
        /\ rcalls[k].v2 = trace[k].v2
        /\ << rcalls[k].f_1, rcalls[k].g_1, rcalls[k].f_3, rcalls[k].g_3 >> =
              << trace[k].f1, trace[k].g1, trace[k].f3, trace[k].g3 >>

\* two refinement calls were made, with different positions, velocities and
\* Lagrange coefficients and the same D and R
C28_Witness ==
    /\ cpc = "returned"
    /\ Len(rcalls) = 2
    /\ rcalls[1].r2 # rcalls[2].r2
    /\ rcalls[1].v2 # rcalls[2].v2
    /\ rcalls[1].f_1 # rcalls[2].f_1
    /\ rcalls[1].D = rcalls[2].D
    /\ rcalls[1].R = rcalls[2].R
    /\ VFinite(rcalls[2].r2)

RunWindows == IF nobs >= 2 THEN nobs - 2 ELSE 0
WindowSteps(refiters) == refiters + 7
\* the steps the window under way can still take
WindowStepsLeft(pc, k, refiters) ==
    IF pc = "estimate" THEN refiters + 6
    ELSE IF pc = "roots" THEN refiters + 5
    ELSE IF pc = "select" THEN refiters + 4
    ELSE IF pc = "solve" THEN refiters + 3
    ELSE IF pc = "loop" THEN (refiters - k) + 2
    ELSE IF pc \in {"returned", "raised"} THEN 1
    ELSE 0
\* a bound on the steps the run can still take
RunStepsLeft(o, c, k, w, n, refiters) ==
    IF o = "start" THEN n * WindowSteps(refiters) + 2
    ELSE IF o = "loop"
         THEN (n - w - (IF c = "idle" THEN 0 ELSE 1)) * WindowSteps(refiters)
              + WindowStepsLeft(c, k, refiters) + 1
    ELSE 0

\* C30: a run over N observations with refiters refinements terminates (every
\* step lowers a bound on the steps left); a run that returns has made N-2
\* calls of the core and (N-2)*refiters calls of gauss_refinement, each with
\* two univkepler solves of at most 10 Newton-Raphson updates, at most
\* 20*(N-2)*refiters updates in all.
C30_RunBounded ==
    /\ [](opc = "returned" =>
             /\ CoreCallsMade = nobs - 2
             /\ Len(rcalls) = (nobs - 2) * oargs.refiters
             /\ UpdatesFrom(rcalls, 1) <= 20 * (nobs - 2) * oargs.refiters)
    /\ [](/\ CoreCallsMade <= RunWindows
          /\ Len(rcalls) <= RunWindows * oargs.refiters
          /\ rcalls # << >> =>
                /\ NewtonUpdates(rcalls[Len(rcalls)])[1] <= 10
                /\ NewtonUpdates(rcalls[Len(rcalls)])[2] <= 10)
    /\ [][/\ RunStepsLeft(opc', cpc', i', j', RunWindows, oargs.refiters)
               < RunStepsLeft(opc, cpc, i, j, RunWindows, oargs.refiters)
          /\ RunStepsLeft(opc', cpc', i', j', RunWindows, oargs.refiters) >= 0]_vars

\* a run over four observations with two refinements per window has
\* returned: two calls of the core, four of gauss_refinement, and a solve
\* that took more than one update
C30_Witness ==
    /\ opc = "returned"
    /\ nobs = 4
    /\ oargs.refiters = 2
    /\ Len(calls) = 2
    /\ Len(rcalls) = 4
    /\ UpdatesFrom(rcalls, 1) > 4
    /\ IsFinite(oret.value.a_mean)

====
